---------------------------- MODULE Spec2Model ----------------------------
(***************************************************************************)
(* A model of the LLM wrapper (llm_wrapper/core.py, config.py,             *)
(* providers/*.py) and of the web backend (web/app.py, web/database.py,    *)
(* web/database_service.py).                                               *)
(*                                                                         *)
(* Text is modelled by TLA+ strings, which TLC treats as sequences of      *)
(* characters (Len, \o and SubSeq work on them), so formatting and parsing *)
(* are computed character by character as the Python code computes them.   *)
(*                                                                         *)
(* The module holds several specifications over one set of variables, one  *)
(* per part of the program; each leaves the variables of the other parts   *)
(* at their idle values:                                                   *)
(*   SpecChat     LLMWrapper._messages_to_prompt (the flattening of chat)  *)
(*   SpecParse    parse_nutritionist_response (the response-tag parser)    *)
(*   SpecProvider AnthropicProvider and OpenAIProvider: generate,          *)
(*                generate_stream and get_available_models against a       *)
(*                vendor transport                                         *)
(*   SpecFacade   Config and LLMWrapper: construction, and generate, chat, *)
(*                generate_stream and get_available_models called by two   *)
(*                concurrent callers                                       *)
(*   SpecWeb      the Flask application: the module initialisation of      *)
(*                app.py and the handlers index, get_models, update_food,  *)
(*                generate_macros and nutritionist_chat                    *)
(*   SpecMeals    the Flask application: the handlers that write the       *)
(*                store, add_food_to_meal and delete_meal                  *)
(*   SpecDb       DatabaseService: its operations called one after the     *)
(*                other against the table store                            *)
(*   SpecRace     DatabaseService.add_meal_to_plan called by concurrent    *)
(*                requests                                                 *)
(*   SpecSeed     seed_database (seed_data.py) run again and again         *)
(***************************************************************************)
EXTENDS Naturals, Sequences, FiniteSets, TLC

VARIABLES
    messages,       \* chat: the `messages` argument (a list of dicts)
    prompt_parts,   \* chat: the local list prompt_parts at the return statement
    prompt,         \* chat: the string _messages_to_prompt returned
    response_text,  \* parser: the argument of parse_nutritionist_response
    parsed,         \* parser: the dict parse_nutritionist_response returned
    provider,       \* provider: which class the instance is
    default_model,  \* provider: self.default_model
    call,           \* provider: the operation in progress and its arguments
    request,        \* provider: the keyword arguments of the vendor call made
    vendor_calls,   \* provider: vendor calls made on behalf of `call`
    result,         \* provider: what the operation returned or raised
    gen,            \* stream: the state of the generator generate_stream made
    pulls,          \* stream: how many times the consumer has called next()
    transport,      \* stream: what the vendor's stream will emit
    cursor,         \* stream: how many chunks the transport has delivered
    observed,       \* stream: the fragments the consumer has been yielded
    connection,     \* stream: the state of the streaming connection
    environ,        \* facade: os.environ, the variables the code reads
    config,         \* facade: the Config object last constructed
    wrapper,        \* facade: the LLMWrapper instance
    callers,        \* facade: the call each concurrent caller is in
    process,        \* web: the state of the Python process importing app.py
    files,          \* web: the files the handlers read
    llm,            \* web: the module global llm of app.py
    db_service,     \* web: the module global db_service of app.py
    foods,          \* web: the rows of the table "foods"
    http_request,   \* web: the request last handled
    llm_call,       \* web: the keyword arguments of its llm.generate call
    http_response,  \* web: the response to it
    meal_plans,     \* store: the rows of the table "meal_plans"
    meals,          \* store: the rows of the table "meals"
    meal_foods,     \* store: the rows of the table "meal_foods"
    id_seq,         \* store: how many row ids the store has generated
    db_call,        \* service: the DatabaseService operation last called
    db_result,      \* service: what it returned or raised
    requests,       \* service: the position of each concurrent request
    seed_runs       \* seed: what each run of seed_database did

chatVars == <<messages, prompt_parts, prompt>>
parseVars == <<response_text, parsed>>
instanceVars == <<provider, default_model>>
callVars == <<call, request, vendor_calls, result>>
streamVars == <<gen, pulls, transport, cursor, observed, connection>>
providerVars == <<instanceVars, callVars, streamVars>>
facadeVars == <<environ, config, wrapper, callers>>
webVars == <<process, files, llm, db_service, foods, http_request, llm_call,
             http_response>>
tableVars == <<meal_plans, meals, meal_foods, id_seq>>
dbVars == <<tableVars, db_call, db_result, requests, seed_runs>>
vars == <<chatVars, parseVars, providerVars, facadeVars, webVars, dbVars>>

\* The value of a result that has not been computed yet.
NotCalled == "<not called>"
NotParsed == [parsing_error |-> "<not called>"]

\* The idle values of each part's variables.
ChatIdle ==
    /\ messages = <<>>
    /\ prompt_parts = <<>>
    /\ prompt = NotCalled

ParseIdle ==
    /\ response_text = NotCalled
    /\ parsed = NotParsed

\* Python's None and a value that is not None: an optional value is a
\* sequence of no or one element.
None == <<>>
Some(v) == <<v>>

NoCall == [op |-> "none"]
NoRequest == [sent |-> FALSE]
NoResult == [kind |-> "none"]
NoTransport == [opened |-> FALSE]

ProviderIdle ==
    /\ provider = "none"
    /\ default_model = ""
    /\ call = NoCall
    /\ request = NoRequest
    /\ vendor_calls = 0
    /\ result = NoResult
    /\ gen = "none"
    /\ pulls = 0
    /\ transport = NoTransport
    /\ cursor = 0
    /\ observed = <<>>
    /\ connection = "none"

NoEnviron == [ANTHROPIC_API_KEY |-> None]
NoObject == [state |-> "none"]

FacadeIdle ==
    /\ environ = NoEnviron
    /\ config = NoObject
    /\ wrapper = NoObject
    /\ callers = <<>>

NoRequestYet == [route |-> "none"]
NoResponse == [status |-> 0]

WebIdle ==
    /\ process = NoObject
    /\ files = NoObject
    /\ llm = None
    /\ db_service = None
    /\ foods = <<>>
    /\ http_request = NoRequestYet
    /\ llm_call = None
    /\ http_response = NoResponse

NoRows == <<>>

DbIdle ==
    /\ meal_plans = NoRows
    /\ meals = NoRows
    /\ meal_foods = NoRows
    /\ id_seq = 0
    /\ db_call = NoCall
    /\ db_result = NoResult
    /\ requests = <<>>
    /\ seed_runs = <<>>

(***************************************************************************)
(* Text helpers                                                            *)
(***************************************************************************)

\* s[i..j] of a string, empty when i > j.
Sub(s, i, j) == SubSeq(s, i, j)

\* Python `needle in hay`.
Occurs(needle, hay) ==
    \E i \in 1..(Len(hay) - Len(needle) + 1) :
        Sub(hay, i, i + Len(needle) - 1) = needle

Min(S) == CHOOSE x \in S : \A y \in S : x <= y
Max(S) == CHOOSE x \in S : \A y \in S : x >= y

\* Python hay.endswith(suffix).
EndsWith(hay, suffix) ==
    /\ Len(suffix) <= Len(hay)
    /\ Sub(hay, Len(hay) - Len(suffix) + 1, Len(hay)) = suffix

(***************************************************************************)
(* LLMWrapper._messages_to_prompt  (llm_wrapper/core.py 124-145)           *)
(***************************************************************************)

\* A message is a dict: a record that may lack the "role" or the "content"
\* key.  dict.get(key, default):
DictGet(d, key, default) == IF key \in DOMAIN d THEN d[key] ELSE default

\* The separator of the join and the trailing cue (core.py 145).
Separator == "\n\n"
AssistantCue == "\n\nAssistant:"

\* The if/elif chain of the loop body (core.py 136-143): the list of parts
\* one message appends (one part, or none for a role no branch matches).
RenderForwardsUnknown(message) ==
    LET role == DictGet(message, "role", "user")
        content == DictGet(message, "content", "")
    IN  IF role = "system" THEN <<"System: " \o content>>
        ELSE IF role = "user" THEN <<"User: " \o content>>
        ELSE IF role = "assistant" THEN <<"Assistant: " \o content>>
        ELSE <<role \o ": " \o content>>

Render(message) ==
    LET role == DictGet(message, "role", "user")
        content == DictGet(message, "content", "")
    IN  IF role = "system" THEN <<"System: " \o content>>
        ELSE IF role = "user" THEN <<"User: " \o content>>
        ELSE IF role = "assistant" THEN <<"Assistant: " \o content>>
        ELSE <<>>

\* The for loop (core.py 134-143): parts is prompt_parts before iteration i.
RECURSIVE FlattenLoop(_, _, _)
FlattenLoop(msgs, i, parts) ==
    IF i > Len(msgs) THEN parts
    ELSE FlattenLoop(msgs, i + 1, parts \o Render(msgs[i]))

\* Python sep.join(parts).
RECURSIVE JoinFrom(_, _, _, _)
JoinFrom(sep, parts, i, acc) ==
    IF i > Len(parts) THEN acc
    ELSE JoinFrom(sep, parts, i + 1,
                  IF i = 1 THEN parts[i] ELSE acc \o sep \o parts[i])

JoinSingleNewline(sep, parts) == JoinFrom("\n", parts, 1, "")

Join(sep, parts) == JoinFrom(sep, parts, 1, "")

\* The return value (core.py 145).
_messages_to_prompt(msgs) ==
    Join(Separator, FlattenLoop(msgs, 1, <<>>)) \o AssistantCue

(***************************************************************************)
(* parse_nutritionist_response  (web/app.py 80-130)                        *)
(***************************************************************************)

CharAt(s, i) == Sub(s, i, i)

\* The literal lit occurs in s at position i.
StartsAt(s, i, lit) ==
    /\ i >= 1
    /\ i + Len(lit) - 1 <= Len(s)
    /\ Sub(s, i, i + Len(lit) - 1) = lit

\* The characters \s matches and str.strip() removes (those a TLA+ string
\* literal can hold).
Whitespace == {" ", "\t", "\n", "\r", "\f"}
IsSpaceBlankOnly(c) == c = " "

IsSpace(c) == c \in Whitespace

\* What "." matches with re.DOTALL (app.py 103-104): every character.
Dot(c) == TRUE

\* The length of the longest run of whitespace of s that starts at i: what
\* a greedy \s* takes first.
RECURSIVE SpaceRun(_, _)
SpaceRun(s, i) ==
    IF i <= Len(s) /\ IsSpace(CharAt(s, i)) THEN 1 + SpaceRun(s, i + 1) ELSE 0

\* `\s*CLOSE` matches at e: some run of whitespace, then the literal.
TailMatchesAt(s, e, close) ==
    \E u \in 0..SpaceRun(s, e) : StartsAt(s, e + u, close)

\* The lazy group (.*?) whose match so far ends before e: the rest of the
\* pattern is tried first, and only when it fails does the group take one
\* more character.  The result is the position after the group, 0 when the
\* group cannot be extended to a match.
RECURSIVE LazyGroupEnd(_, _, _)
LazyGroupEnd(s, e, close) ==
    IF TailMatchesAt(s, e, close) THEN e
    ELSE IF e <= Len(s) /\ Dot(CharAt(s, e)) THEN LazyGroupEnd(s, e + 1, close)
    ELSE 0

NoMatch == [matched |-> FALSE]

\* The leading greedy \s* having taken w characters from p on: the group is
\* tried from p + w, and on failure the \s* gives one character back.
RECURSIVE LeadingSpace(_, _, _, _)
LeadingSpace(s, p, w, close) ==
    LET e == LazyGroupEnd(s, p + w, close)
    IN  IF e # 0 THEN [matched |-> TRUE, group1 |-> Sub(s, p + w, e - 1)]
        ELSE IF w = 0 THEN NoMatch
        ELSE LeadingSpace(s, p, w - 1, close)

\* The pattern OPEN\s*(.*?)\s*CLOSE (app.py 100-101) tried at position i.
MatchAt(s, i, open, close) ==
    IF ~StartsAt(s, i, open) THEN NoMatch
    ELSE LeadingSpace(s, i + Len(open), SpaceRun(s, i + Len(open)), close)

\* The scan always moves on to a later start, so that the match found is
\* the one at the last position at which the pattern matches.
RECURSIVE SearchLastFrom(_, _, _, _)
SearchLastFrom(s, i, open, close) ==
    IF i < 1 THEN NoMatch
    ELSE LET m == MatchAt(s, i, open, close)
         IN  IF m.matched THEN m ELSE SearchLastFrom(s, i - 1, open, close)

SearchLastStart(s, open, close) == SearchLastFrom(s, Len(s), open, close)

\* re.search scans the start positions from the left and returns the first
\* match found.
RECURSIVE SearchFrom(_, _, _, _)
SearchFrom(s, i, open, close) ==
    IF i > Len(s) THEN NoMatch
    ELSE LET m == MatchAt(s, i, open, close)
         IN  IF m.matched THEN m ELSE SearchFrom(s, i + 1, open, close)

\* re.search(pattern, s, re.DOTALL); group1 is group(1) of the match.
Search(s, open, close) == SearchFrom(s, 1, open, close)

\* str.strip().
RECURSIVE LStrip(_)
LStrip(s) ==
    IF s # "" /\ IsSpace(CharAt(s, 1)) THEN LStrip(Sub(s, 2, Len(s))) ELSE s

RECURSIVE RStrip(_)
RStrip(s) ==
    IF s # "" /\ IsSpace(CharAt(s, Len(s)))
    THEN RStrip(Sub(s, 1, Len(s) - 1)) ELSE s

Strip(s) == RStrip(LStrip(s))

\* The sentinel payload (app.py 116-121).
ParsingErrorChat == "PARSING ERROR"

ParseFailure(text) ==
    [chat |-> ParsingErrorChat, meal_plan |-> "",
     raw_response |-> text, parsing_error |-> TRUE]

\* The function succeeds as soon as it finds the chat section.
ParseChatOnly(text) ==
    LET chat_match == Search(text, "<chat>", "</chat>")
        meal_plan_match == Search(text, "<meal-plan>", "</meal-plan>")
    IN  IF chat_match.matched
        THEN [chat |-> Strip(chat_match.group1),
              meal_plan |-> IF meal_plan_match.matched
                            THEN Strip(meal_plan_match.group1) ELSE "",
              raw_response |-> text, parsing_error |-> FALSE]
        ELSE ParseFailure(text)

\* The function body (app.py 98-121).  re.search does not raise on a
\* string, so the except branch (app.py 123-130) is not taken.
parse_nutritionist_response(text) ==
    LET chat_match == Search(text, "<chat>", "</chat>")
        meal_plan_match == Search(text, "<meal-plan>", "</meal-plan>")
    IN  IF chat_match.matched /\ meal_plan_match.matched
        THEN [chat |-> Strip(chat_match.group1),
              meal_plan |-> Strip(meal_plan_match.group1),
              raw_response |-> text, parsing_error |-> FALSE]
        ELSE ParseFailure(text)

(***************************************************************************)
(* Inputs of the parser                                                    *)
(***************************************************************************)

\* A raw completion is a concatenation of at most MaxPieces pieces: the
\* four tags, whitespace, text, and text padded with whitespace.
MaxPieces == 5

Pieces ==
    {"<chat>", "</chat>", "<meal-plan>", "</meal-plan>", "\n", "a", " a\n"}

RECURSIVE RawTexts(_)
RawTexts(n) ==
    IF n = 0 THEN {""}
    ELSE LET shorter == RawTexts(n - 1)
         IN  shorter \cup {t \o p : t \in shorter, p \in Pieces}

\* The completion llm.generate returned to nutritionist_chat (app.py 651).
InitParse ==
    /\ ChatIdle
    /\ ProviderIdle
    /\ FacadeIdle
    /\ WebIdle
    /\ DbIdle
    /\ response_text \in RawTexts(MaxPieces)
    /\ parsed = NotParsed

\* nutritionist_chat from the return of llm.generate on (app.py 659): the
\* completion raw_response is parsed.
ParseResponse ==
    /\ parsed = NotParsed
    /\ parsed' = parse_nutritionist_response(response_text)
    /\ UNCHANGED <<response_text, chatVars, providerVars, facadeVars, webVars, dbVars>>

NextParse == ParseResponse

SpecParse == InitParse /\ [][NextParse]_vars

(***************************************************************************)
(* Inputs of the flattening                                                *)
(***************************************************************************)

\* The longest conversation drawn.
MaxMessages == 2

\* Role values: the three the code knows, and two it does not.
KnownRoles == {"system", "user", "assistant"}
Roles == KnownRoles \cup {"tool", "System"}
Contents == {"", "Hi", "You are helpful"}

\* Dicts with both keys, without "role", without "content", with neither.
Messages ==
    {[role |-> r, content |-> c] : r \in Roles, c \in Contents}
    \cup {[content |-> c] : c \in Contents}
    \cup {[role |-> r] : r \in Roles}

MessageLists == UNION {[1..n -> Messages] : n \in 0..MaxMessages}

InitChat ==
    /\ messages \in MessageLists
    /\ prompt_parts = <<>>
    /\ prompt = NotCalled
    /\ ParseIdle
    /\ ProviderIdle
    /\ FacadeIdle
    /\ WebIdle
    /\ DbIdle

\* chat(messages) up to the call of generate (core.py 115): the flattening.
Chat ==
    /\ prompt_parts' = FlattenLoop(messages, 1, <<>>)
    /\ prompt' = _messages_to_prompt(messages)
    /\ UNCHANGED <<messages, parseVars, providerVars, facadeVars, webVars, dbVars>>

NextChat == Chat

SpecChat == InitChat /\ [][NextChat]_vars

(***************************************************************************)
(* The providers  (llm_wrapper/providers/anthropic.py, openai.py)          *)
(***************************************************************************)

Providers == {"anthropic", "openai"}

\* The default of the default_model keyword (anthropic.py 23, openai.py 23).
BuiltinDefaultModel(p) ==
    IF p = "anthropic" THEN "claude-3-5-haiku-20241022" ELSE "gpt-3.5-turbo"

\* The token ceiling of `max_tokens or 1000` (anthropic.py 51, 86).
DefaultMaxTokens == 1000

\* Python `x or d` for an optional string and for an optional integer: d
\* when x is None or falsy.
OrString(x, d) == IF x = None \/ x[1] = "" THEN d ELSE x[1]
OrInteger(x, d) == IF x = None \/ x[1] = 0 THEN d ELSE x[1]

\* The single user message both providers send (anthropic.py 53, openai.py 51).
UserMessage(text) == <<[role |-> "user", content |-> text]>>

\* The keyword arguments of client.messages.create / client.messages.stream
\* (anthropic.py 46-55, 81-89).
AnthropicRequest(args, default, streaming) ==
    [sent |-> TRUE,
     model |-> OrString(args.model, default),
     max_tokens |-> Some(OrInteger(args.max_tokens, DefaultMaxTokens)),
     temperature |-> args.temperature,
     messages |-> UserMessage(args.prompt),
     stream |-> streaming]

\* The keyword arguments of client.chat.completions.create
\* (openai.py 46-55, 81-91): max_tokens is passed as it came.
OpenAIRequest(args, default, streaming) ==
    [sent |-> TRUE,
     model |-> OrString(args.model, default),
     max_tokens |-> args.max_tokens,
     temperature |-> args.temperature,
     messages |-> UserMessage(args.prompt),
     stream |-> streaming]

VendorRequest(p, args, default, streaming) ==
    IF p = "anthropic" THEN AnthropicRequest(args, default, streaming)
    ELSE OpenAIRequest(args, default, streaming)

\* The prefixes of the re-raised errors (anthropic.py 58, 94; openai.py 58, 97).
ErrorPrefix(p, streaming) ==
    IF p = "anthropic"
    THEN (IF streaming THEN "Anthropic streaming API error: "
          ELSE "Anthropic API error: ")
    ELSE (IF streaming THEN "OpenAI streaming API error: "
          ELSE "OpenAI API error: ")

\* raise Exception(f"... error: {str(e)}").
Raised(p, streaming, message) ==
    [kind |-> "raise", type |-> "Exception",
     message |-> ErrorPrefix(p, streaming) \o message]

Returned(value) == [kind |-> "return", value |-> value]

\* What the vendor call of generate does: it raises, or it returns a
\* response whose items are the texts of response.content (Anthropic) or
\* the message contents of response.choices (OpenAI, where a content may be
\* None).
IsError(outcome) == outcome.kind = "error"

\* The try block left out: the vendor's exception reaches the caller as it
\* is, and a response is returned as with the try block.
GenerateUnwrapped(p, outcome) ==
    IF IsError(outcome)
    THEN [kind |-> "raise", type |-> outcome.type, message |-> outcome.message]
    ELSE IF outcome.items = <<>>
    THEN [kind |-> "raise", type |-> "IndexError",
          message |-> "list index out of range"]
    ELSE Returned(outcome.items[1])

\* The try block of generate (anthropic.py 48-58, openai.py 48-58): the
\* text of the first item is returned; an exception of the vendor call, or
\* the IndexError of [0] on a response without items, is re-raised.
GenerateResult(p, outcome) ==
    IF IsError(outcome) THEN Raised(p, FALSE, outcome.message)
    ELSE IF outcome.items = <<>>
    THEN Raised(p, FALSE, "list index out of range")
    ELSE Returned(outcome.items[1])

\* A second attempt after a failed vendor call.
VendorCallsWithRetry(outcome) == IF IsError(outcome) THEN 2 ELSE 1

\* The vendor calls one generate makes: the one of the try block.
VendorCallsOfGenerate(outcome) == 1

(***************************************************************************)
(* Inputs of the providers                                                 *)
(***************************************************************************)

\* The lists get_available_models returns (anthropic.py 103-106, openai.py
\* 106-111).
AvailableModels(p) ==
    IF p = "anthropic"
    THEN <<"claude-3-5-haiku-20241022", "claude-3-haiku-20240307">>
    ELSE <<"gpt-4", "gpt-4-turbo-preview", "gpt-3.5-turbo", "gpt-3.5-turbo-16k">>

\* The arguments of a call: each optional one is absent or a valid value
\* (a model of the provider other than its default, a positive ceiling).
Prompts == {"Write a haiku."}
ModelArgs(p) == {None, Some(AvailableModels(p)[2])}
MaxTokensArgs == {None, Some(50)}
TemperatureArgs == {None, Some(0)}

Arguments(p) ==
    [prompt : Prompts, model : ModelArgs(p), max_tokens : MaxTokensArgs,
     temperature : TemperatureArgs]

Failures ==
    {[kind |-> "error", type |-> "AuthenticationError",
      message |-> "invalid x-api-key"],
     [kind |-> "error", type |-> "RateLimitError",
      message |-> "rate limit exceeded"]}

CompletionTexts == {"line1\nline2\nline3", ""}

Responses(p) ==
    {[kind |-> "response", items |-> <<>>]}
    \cup {[kind |-> "response", items |-> <<Some(t)>>] : t \in CompletionTexts}
    \cup (IF p = "openai" THEN {[kind |-> "response", items |-> <<None>>]}
          ELSE {})

Outcomes(p) == Failures \cup Responses(p)

\* The instance after __init__ (anthropic.py 13-23, openai.py 13-23).
InitProvider ==
    /\ ChatIdle
    /\ ParseIdle
    /\ FacadeIdle
    /\ WebIdle
    /\ DbIdle
    /\ provider \in Providers
    /\ default_model \in {BuiltinDefaultModel(provider), "custom-model"}
    /\ call = NoCall
    /\ request = NoRequest
    /\ vendor_calls = 0
    /\ result = NoResult
    /\ gen = "none"
    /\ pulls = 0
    /\ transport = NoTransport
    /\ cursor = 0
    /\ observed = <<>>
    /\ connection = "none"

\* No generator of an earlier generate_stream call is still alive.
NoLiveStream == gen \notin {"created", "suspended"}

\* generate(prompt, model, max_tokens, temperature)
\* (anthropic.py 25-58, openai.py 25-58).
Generate ==
    /\ NoLiveStream
    /\ \E args \in Arguments(provider), outcome \in Outcomes(provider) :
           /\ call' = [op |-> "generate", args |-> args, outcome |-> outcome]
           /\ request' = VendorRequest(provider, args, default_model, FALSE)
           /\ vendor_calls' = VendorCallsOfGenerate(outcome)
           /\ result' = GenerateResult(provider, outcome)
    /\ gen' = "none"
    /\ pulls' = 0
    /\ transport' = NoTransport
    /\ cursor' = 0
    /\ observed' = <<>>
    /\ connection' = "none"
    /\ UNCHANGED <<instanceVars, chatVars, parseVars, facadeVars, webVars, dbVars>>

\* The longest stream the transport emits, in chunks.
MaxChunks == 3

\* A chunk of the stream is an optional text: a text of stream.text_stream
\* (anthropic.py 91), or chunk.choices[0].delta.content, which may be None
\* (openai.py 94).
Chunks(p) ==
    {Some("Hel"), Some("lo")} \cup (IF p = "openai" THEN {None} ELSE {})

ChunkSeqs(p) == UNION {[1..n -> Chunks(p)] : n \in 0..MaxChunks}

EndOfStream == [kind |-> "end"]

\* What an opened stream will emit: its chunks, then its end or a failure.
Scripts(p) ==
    {[opened |-> TRUE, chunks |-> c, ending |-> e] :
        c \in ChunkSeqs(p), e \in {EndOfStream} \cup Failures}

\* The test of the loop body (openai.py 94): a chunk without content is
\* not yielded.  Every text of the Anthropic text_stream is yielded.
Skipped(p, chunk) == p = "openai" /\ chunk = None

\* The for loop resumed after the chunk at position k (anthropic.py 91-92,
\* openai.py 93-95): the position of the next chunk that is yielded,
\* Len(chunks) + 1 when the stream ends or fails before one is.
RECURSIVE NextStop(_, _, _)
NextStop(p, chunks, k) ==
    IF k + 1 > Len(chunks) THEN Len(chunks) + 1
    ELSE IF Skipped(p, chunks[k + 1]) THEN NextStop(p, chunks, k + 1)
    ELSE k + 1

\* The fragment is handed over before those yielded earlier.
YieldReordered(seen, chunk) == <<chunk[1]>> \o seen

\* `yield text` (anthropic.py 92, openai.py 95): the consumer's view after
\* the fragment of the chunk is yielded.
Yield(seen, chunk) == Append(seen, chunk[1])

\* The connection when the generator's frame is left by the end of the
\* stream ("end"), by an exception ("error") or by GeneratorExit ("close").
\* Anthropic: the with statement (anthropic.py 84-90) closes the stream on
\* every exit.  OpenAI: the stream object is never closed by the code
\* (openai.py 84-95); a stream read to its end has given its connection
\* back, otherwise the connection stays open until the garbage collector
\* or the SDK gets to it.
ConnectionAfterExit(p, how) ==
    IF p = "anthropic" \/ how = "end" THEN {"released"}
    ELSE {"open", "released"}

\* generate_stream(prompt, model, max_tokens, temperature) (anthropic.py
\* 60-94, openai.py 60-97): a generator function; the call makes the
\* generator and runs nothing of the body.
GenerateStream ==
    /\ NoLiveStream
    /\ \E args \in Arguments(provider) :
           call' = [op |-> "generate_stream", args |-> args]
    /\ request' = NoRequest
    /\ vendor_calls' = 0
    /\ result' = NoResult
    /\ gen' = "created"
    /\ pulls' = 0
    /\ transport' = NoTransport
    /\ cursor' = 0
    /\ observed' = <<>>
    /\ connection' = "none"
    /\ UNCHANGED <<instanceVars, chatVars, parseVars, facadeVars, webVars, dbVars>>

\* The generator runs from the chunk at position k of the opened script to
\* its next yield, or to its end.
RunToNextYield(script, k) ==
    LET stop == NextStop(provider, script.chunks, k)
    IN  IF stop <= Len(script.chunks)
        THEN /\ cursor' = stop
             /\ observed' = Yield(observed, script.chunks[stop])
             /\ gen' = "suspended"
             /\ connection' = "open"
             /\ result' = result
        ELSE /\ cursor' = Len(script.chunks)
             /\ observed' = observed
             /\ IF script.ending = EndOfStream
                THEN /\ gen' = "exhausted"
                     /\ result' = result
                     /\ connection' \in ConnectionAfterExit(provider, "end")
                ELSE /\ gen' = "failed"
                     /\ result' = Raised(provider, TRUE, script.ending.message)
                     /\ connection' \in ConnectionAfterExit(provider, "error")

\* The first next(): the body starts (anthropic.py 81-90, openai.py 81-91),
\* the streaming call is made and succeeds, and the loop runs to its first
\* yield.
FirstPull ==
    /\ gen = "created"
    /\ pulls' = pulls + 1
    /\ request' = VendorRequest(provider, call.args, default_model, TRUE)
    /\ vendor_calls' = vendor_calls + 1
    /\ \E script \in Scripts(provider) :
           /\ transport' = script
           /\ RunToNextYield(script, 0)
    /\ UNCHANGED <<call, instanceVars, chatVars, parseVars, facadeVars, webVars, dbVars>>

\* The first next() when the streaming call itself raises: the except
\* clause re-raises (anthropic.py 93-94, openai.py 96-97).
FirstPullOpenFails ==
    /\ gen = "created"
    /\ pulls' = pulls + 1
    /\ request' = VendorRequest(provider, call.args, default_model, TRUE)
    /\ vendor_calls' = vendor_calls + 1
    /\ \E failure \in Failures :
           result' = Raised(provider, TRUE, failure.message)
    /\ gen' = "failed"
    /\ UNCHANGED <<call, transport, cursor, observed, connection>>
    /\ UNCHANGED <<instanceVars, chatVars, parseVars, facadeVars, webVars, dbVars>>

\* A later next(): the loop resumes after the yield.
Pull ==
    /\ gen = "suspended"
    /\ pulls' = pulls + 1
    /\ RunToNextYield(transport, cursor)
    /\ UNCHANGED <<call, request, vendor_calls, transport>>
    /\ UNCHANGED <<instanceVars, chatVars, parseVars, facadeVars, webVars, dbVars>>

\* The consumer stops iterating and the generator is closed (close(), or
\* its finalisation): a generator not yet started just ends; in a suspended
\* one GeneratorExit is raised at the yield, which `except Exception` does
\* not catch, so the frame is left and close() returns normally.
Close ==
    /\ gen \in {"created", "suspended"}
    /\ gen' = "closed"
    /\ IF gen = "created" THEN connection' = connection
       ELSE connection' \in ConnectionAfterExit(provider, "close")
    /\ UNCHANGED <<call, request, vendor_calls, result, pulls, transport,
                   cursor, observed>>
    /\ UNCHANGED <<instanceVars, chatVars, parseVars, facadeVars, webVars, dbVars>>

\* One list object serves every call, so a call returns the list an earlier
\* call returned, as its caller has left it.
ModelsReturnedShared(p, earlier) ==
    IF earlier # None THEN earlier[1] ELSE AvailableModels(p)

\* The return statement of get_available_models (anthropic.py 103-106,
\* openai.py 106-111): the list display is evaluated on every call and
\* makes a new list; `earlier`, the list an earlier call returned as its
\* caller has left it, is not read.
ModelsReturned(p, earlier) == AvailableModels(p)

\* get_available_models() (anthropic.py 96-106, openai.py 99-111): no use
\* of self.client.  The call records the list of the call before it, if
\* that was a get_available_models too, and the list the caller now holds.
GetAvailableModels ==
    /\ NoLiveStream
    /\ LET earlier == IF call.op = "get_available_models"
                      THEN Some(call.held) ELSE None
           returned == ModelsReturned(provider, earlier)
       IN  /\ call' = [op |-> "get_available_models", earlier |-> earlier,
                       held |-> returned]
           /\ result' = Returned(returned)
    /\ request' = NoRequest
    /\ vendor_calls' = 0
    /\ gen' = "none"
    /\ pulls' = 0
    /\ transport' = NoTransport
    /\ cursor' = 0
    /\ observed' = <<>>
    /\ connection' = "none"
    /\ UNCHANGED <<instanceVars, chatVars, parseVars, facadeVars, webVars, dbVars>>

\* The caller changes the list it was returned: it appends an entry or
\* removes the first one.
CallerEditsModels ==
    /\ call.op = "get_available_models"
    /\ call.held = result.value
    /\ \E edited \in {Append(call.held, "my-model"), Tail(call.held)} :
           call' = [call EXCEPT !.held = edited]
    /\ UNCHANGED <<request, vendor_calls, result, streamVars>>
    /\ UNCHANGED <<instanceVars, chatVars, parseVars, facadeVars, webVars, dbVars>>

NextProvider ==
    \/ Generate
    \/ GenerateStream
    \/ FirstPull
    \/ FirstPullOpenFails
    \/ Pull
    \/ Close
    \/ GetAvailableModels
    \/ CallerEditsModels

SpecProvider == InitProvider /\ [][NextProvider]_vars

(***************************************************************************)
(* Config  (llm_wrapper/config.py)                                         *)
(***************************************************************************)

\* bool(x) of an optional string: None and "" are falsy.
Truthy(x) == x # None /\ x[1] # ""

\* The key is taken from the argument whenever one is passed, empty or not.
ConfigKeyIfPassed(arg, env) == IF arg # None THEN arg ELSE env

\* `anthropic_api_key or os.getenv("ANTHROPIC_API_KEY")` (config.py 23): an
\* optional string, the environment's value when the argument is falsy.
ConfigKey(arg, env) == IF Truthy(arg) THEN arg ELSE env

\* The ValueError of config.py 26-29.
ConfigErrorMessage ==
    "Anthropic API key is required. " \o
    "Set ANTHROPIC_API_KEY environment variable or pass it directly."

\* Config.__init__(anthropic_api_key) (config.py 16-29): the object, or the
\* exception that leaves no object behind.
NewConfig(arg, env) ==
    LET key == ConfigKey(arg, env.ANTHROPIC_API_KEY)
    IN  IF ~Truthy(key)
        THEN [state |-> "raised", type |-> "ValueError",
              message |-> ConfigErrorMessage]
        ELSE [state |-> "built", anthropic_api_key |-> key[1]]

\* Config.from_env() (config.py 31-34).
from_env(env) == NewConfig(None, env)

\* Config.validate() (config.py 36-38): bool(self.anthropic_api_key).
validate(c) == c.anthropic_api_key # ""

(***************************************************************************)
(* LLMWrapper  (llm_wrapper/core.py)                                       *)
(***************************************************************************)

\* A provider instance after its __init__ (base.py 12-21, anthropic.py
\* 13-23, openai.py 13-23).
ProviderInstance(class, api_key, model) ==
    [class |-> class, api_key |-> api_key, default_model |-> model]

\* The provider is always the Anthropic one, whatever was supplied.
HeldProviderAlwaysBuilt(provider_arg, cfg) ==
    ProviderInstance("anthropic", cfg.anthropic_api_key,
                     BuiltinDefaultModel("anthropic"))

\* `provider or AnthropicProvider(self.config.anthropic_api_key)`
\* (core.py 24); a provider object is truthy.
HeldProvider(provider_arg, cfg) ==
    IF provider_arg # None THEN provider_arg[1]
    ELSE ProviderInstance("anthropic", cfg.anthropic_api_key,
                          BuiltinDefaultModel("anthropic"))

\* LLMWrapper.__init__(provider, config) (core.py 15-24): line 23 runs
\* first, so a failing Config.from_env() fails the construction whether or
\* not a provider was supplied.
NewWrapper(provider_arg, config_arg, env) ==
    LET cfg == IF config_arg # None THEN config_arg[1] ELSE from_env(env)
    IN  IF cfg.state = "raised" THEN cfg
        ELSE [state |-> "built", config |-> cfg,
              provider |-> HeldProvider(provider_arg, cfg)]

\* The extra keyword arguments are not passed on.
ForwardedWithoutExtras(args) ==
    [prompt |-> args.prompt, model |-> args.model,
     max_tokens |-> args.max_tokens, temperature |-> args.temperature,
     kwargs |-> {}]

\* The keyword arguments of self.provider.generate(...) and of
\* self.provider.generate_stream(...) (core.py 47-53, 76-82).
Forwarded(args) ==
    [prompt |-> args.prompt, model |-> args.model,
     max_tokens |-> args.max_tokens, temperature |-> args.temperature,
     kwargs |-> args.kwargs]

\* The keyword arguments of self.generate(...) in chat (core.py 115-122).
ChatForwarded(args) ==
    [prompt |-> _messages_to_prompt(args.messages), model |-> args.model,
     max_tokens |-> args.max_tokens, temperature |-> args.temperature,
     kwargs |-> args.kwargs]

\* The vendor call with the **kwargs the providers pass on (anthropic.py
\* 49-55, 81-89; openai.py 48-55, 81-91).
VendorRequestWithExtras(p, args, default, streaming) ==
    [named |-> VendorRequest(p, args, default, streaming),
     extra |-> args.kwargs]

\* `return self.provider.generate(...)`, `yield from
\* self.provider.generate_stream(...)`, `return
\* self.provider.get_available_models()` (core.py 47, 76, 91): no try
\* statement surrounds the call, so what the provider returns, yields or
\* raises is what the caller gets.
Propagated(provider_result) == provider_result

\* The provider writes the model of the call into self.default_model.
InstanceRemembersModel(instance, args) ==
    [instance EXCEPT !.default_model = OrString(args.model, @)]

\* The provider instance after one of its operations ran with `args`: no
\* operation assigns to self (anthropic.py 25-106, openai.py 25-111).
InstanceAfter(instance, args) == instance

\* The wrapper after one of its operations reached its provider: no
\* operation assigns to self (core.py 26-145).
WrapperAfter(w, args) ==
    [w EXCEPT !.provider = InstanceAfter(@, args)]

(***************************************************************************)
(* Concurrent callers of one LLMWrapper                                    *)
(***************************************************************************)

Callers == {"caller1", "caller2"}

IdleCaller == [pc |-> "idle"]

\* A caller inside a call of the wrapper: the operation and its arguments,
\* the calls made on its behalf (on the wrapper itself and on the held
\* provider), the vendor request, the vendor's answer, what the provider
\* gave back and what the wrapper gave back, and, for a stream, the transport's script, the
\* position in it and the fragments the caller was yielded.
InCall(pc, op, args) ==
    [pc |-> pc, op |-> op, args |-> args, trace |-> <<>>, pulls |-> 0,
     request |-> NoRequest, outcome |-> NoResult,
     provider_result |-> NoResult, result |-> NoResult,
     script |-> NoTransport, cursor |-> 0, observed |-> <<>>]

OnFacade(op, args) == [on |-> "facade", op |-> op, args |-> args]
OnProvider(op, args) == [on |-> "provider", op |-> op, args |-> args]

\* The caller is in no call: it made none, or its last one is over.
Finished(r) == r.pc \in {"idle", "done", "exhausted", "failed", "closed"}

\* Inputs of the wrapper's operations.
KeyArgs == {None, Some(""), Some("sk-ant-arg")}
EnvKeys == {None, Some(""), Some("sk-ant-env")}
ProviderArgs ==
    {None, Some(ProviderInstance("openai", "sk-openai", "gpt-4"))}

FacadeArguments ==
    {[prompt |-> "Write a haiku.", model |-> None, max_tokens |-> None,
      temperature |-> None, kwargs |-> {}],
     [prompt |-> "Write a haiku.", model |-> Some("model-x"),
      max_tokens |-> Some(50), temperature |-> Some(0),
      kwargs |-> {<<"top_p", 1>>}]}

ChatArguments ==
    {[messages |-> <<[role |-> "user", content |-> "Hi"]>>, model |-> None,
      max_tokens |-> None, temperature |-> None, kwargs |-> {}],
     [messages |-> <<[role |-> "system", content |-> "You are helpful"],
                     [role |-> "tool", content |-> "Hi"]>>,
      model |-> Some("model-x"), max_tokens |-> Some(50),
      temperature |-> Some(0), kwargs |-> {<<"top_p", 1>>}]}

FacadeOutcomes(p) ==
    {[kind |-> "error", type |-> "RateLimitError",
      message |-> "rate limit exceeded"],
     [kind |-> "response", items |-> <<Some("line1\nline2")>>]}

FacadeScripts(p) ==
    {[opened |-> TRUE, chunks |-> c, ending |-> e] :
        c \in {<<>>, <<Some("Hel"), Some("lo")>>},
        e \in {EndOfStream,
               [kind |-> "error", type |-> "RateLimitError",
                message |-> "rate limit exceeded"]}}

InitFacade ==
    /\ ChatIdle
    /\ ParseIdle
    /\ ProviderIdle
    /\ environ \in [ANTHROPIC_API_KEY : EnvKeys]
    /\ config = NoObject
    /\ wrapper = NoObject
    /\ callers = [c \in Callers |-> IdleCaller]
    /\ WebIdle
    /\ DbIdle

\* Config(anthropic_api_key) (config.py 16-29).
ConstructConfig ==
    /\ config = NoObject
    /\ wrapper = NoObject
    /\ \E arg \in KeyArgs :
           config' = [arg |-> arg, object |-> NewConfig(arg, environ)]
    /\ UNCHANGED <<environ, wrapper, callers>>
    /\ UNCHANGED <<chatVars, parseVars, providerVars, webVars, dbVars>>

\* LLMWrapper(provider, config) (core.py 15-24), with the Config made
\* before, if one was, or without one.
ConstructWrapper ==
    /\ wrapper = NoObject
    /\ \E provider_arg \in ProviderArgs :
       \E config_arg \in
             {None} \cup (IF config # NoObject /\ config.object.state = "built"
                          THEN {Some(config.object)} ELSE {}) :
           /\ wrapper' = [provider_arg |-> provider_arg,
                          config_arg |-> config_arg,
                          object |-> NewWrapper(provider_arg, config_arg,
                                                environ)]
           /\ config' = IF config_arg # None THEN config
                        ELSE [arg |-> None, object |-> from_env(environ)]
    /\ UNCHANGED <<environ, callers>>
    /\ UNCHANGED <<chatVars, parseVars, providerVars, webVars, dbVars>>

Built == wrapper # NoObject /\ wrapper.object.state = "built"

\* A caller enters generate(prompt, model, max_tokens, temperature,
\* **kwargs) (core.py 26-33).
EnterGenerate(c) ==
    /\ Built
    /\ Finished(callers[c])
    /\ \E args \in FacadeArguments :
           callers' = [callers EXCEPT ![c] = InCall("entered", "generate", args)]
    /\ UNCHANGED <<environ, config, wrapper>>
    /\ UNCHANGED <<chatVars, parseVars, providerVars, webVars, dbVars>>

\* A caller enters chat(messages, ...) and the body runs to the call of
\* self.generate (core.py 93-122).
EnterChat(c) ==
    /\ Built
    /\ Finished(callers[c])
    /\ \E args \in ChatArguments :
           callers' = [callers EXCEPT ![c] =
               [InCall("entered", "chat", args) EXCEPT
                   !.trace = <<OnFacade("generate", ChatForwarded(args))>>]]
    /\ UNCHANGED <<environ, config, wrapper>>
    /\ UNCHANGED <<chatVars, parseVars, providerVars, webVars, dbVars>>

\* The arguments generate's body runs with: the caller's, or those chat
\* passed to self.generate.
GenerateArgs(r) == IF r.op = "chat" THEN r.trace[1].args ELSE r.args

\* The body of generate (core.py 47-53) calls the held provider, which
\* sends its vendor request (anthropic.py 44-55, openai.py 44-55).
CallProviderGenerate(c) ==
    LET r == callers[c]
        held == wrapper.object.provider
        passed == Forwarded(GenerateArgs(r))
    IN  /\ Built
        /\ r.pc = "entered"
        /\ callers' = [callers EXCEPT ![c] =
               [r EXCEPT !.pc = "waiting",
                         !.trace = Append(@, OnProvider("generate", passed)),
                         !.request = VendorRequestWithExtras(held.class, passed,
                                         held.default_model, FALSE)]]
        /\ wrapper' = [wrapper EXCEPT !.object = WrapperAfter(@, passed)]
        /\ UNCHANGED <<environ, config>>
        /\ UNCHANGED <<chatVars, parseVars, providerVars, webVars, dbVars>>

\* The vendor answers; the provider returns or raises (anthropic.py 56-58,
\* openai.py 56-58) and the wrapper returns what it got (core.py 47, 116).
ReturnGenerate(c) ==
    LET r == callers[c]
        held == wrapper.object.provider
    IN  /\ Built
        /\ r.pc = "waiting"
        /\ \E outcome \in FacadeOutcomes(held.class) :
               callers' = [callers EXCEPT ![c] =
                   [r EXCEPT !.pc = "done",
                             !.outcome = outcome,
                             !.provider_result = GenerateResult(held.class, outcome),
                             !.result = Propagated(GenerateResult(held.class, outcome))]]
        /\ UNCHANGED <<environ, config, wrapper>>
        /\ UNCHANGED <<chatVars, parseVars, providerVars, webVars, dbVars>>

\* get_available_models() (core.py 84-91) returns the provider's list.
GetModels(c) ==
    LET held == wrapper.object.provider
    IN  /\ Built
        /\ Finished(callers[c])
        /\ callers' = [callers EXCEPT ![c] =
               [InCall("done", "get_available_models", <<>>) EXCEPT
                   !.trace = <<OnProvider("get_available_models", <<>>)>>,
                   !.provider_result = Returned(AvailableModels(held.class)),
                   !.result = Propagated(Returned(AvailableModels(held.class)))]]
        /\ wrapper' = [wrapper EXCEPT !.object = WrapperAfter(@, [model |-> None])]
        /\ UNCHANGED <<environ, config>>
        /\ UNCHANGED <<chatVars, parseVars, providerVars, webVars, dbVars>>

\* generate_stream(...) (core.py 55-82) is a generator function: the call
\* makes the generator and runs nothing of the body.
EnterGenerateStream(c) ==
    /\ Built
    /\ Finished(callers[c])
    /\ \E args \in FacadeArguments :
           callers' = [callers EXCEPT ![c] =
               InCall("created", "generate_stream", args)]
    /\ UNCHANGED <<environ, config, wrapper>>
    /\ UNCHANGED <<chatVars, parseVars, providerVars, webVars, dbVars>>

\* The provider's generator runs from the chunk at position k of the script
\* to its next yield or to its end, and `yield from` (core.py 76) hands the
\* fragment, or the exception, to the caller.
Delegate(r, p, script, k) ==
    LET stop == NextStop(p, script.chunks, k)
    IN  IF stop <= Len(script.chunks)
        THEN [r EXCEPT !.pc = "suspended", !.cursor = stop,
                       !.observed = Yield(@, script.chunks[stop])]
        ELSE IF script.ending = EndOfStream
        THEN [r EXCEPT !.pc = "exhausted", !.cursor = Len(script.chunks)]
        ELSE [r EXCEPT !.pc = "failed", !.cursor = Len(script.chunks),
                       !.provider_result = Raised(p, TRUE, script.ending.message),
                       !.result = Propagated(Raised(p, TRUE, script.ending.message))]

\* The first next() on the wrapper's generator: `yield from` evaluates
\* self.provider.generate_stream(...) (core.py 76-82) and pulls from it, so
\* the provider's body starts and sends the vendor request.
FirstNext(c) ==
    LET r == callers[c]
        held == wrapper.object.provider
        passed == Forwarded(r.args)
    IN  /\ Built
        /\ r.pc = "created"
        /\ \E script \in FacadeScripts(held.class) :
               callers' = [callers EXCEPT ![c] =
                   Delegate([r EXCEPT
                                !.pulls = 1,
                                !.trace = <<OnProvider("generate_stream", passed)>>,
                                !.request = VendorRequestWithExtras(held.class,
                                                passed, held.default_model, TRUE),
                                !.script = script],
                            held.class, script, 0)]
        /\ wrapper' = [wrapper EXCEPT !.object = WrapperAfter(@, passed)]
        /\ UNCHANGED <<environ, config>>
        /\ UNCHANGED <<chatVars, parseVars, providerVars, webVars, dbVars>>

\* A later next(): the delegation resumes the provider's generator.
LaterNext(c) ==
    LET r == callers[c]
        held == wrapper.object.provider
    IN  /\ Built
        /\ r.pc = "suspended"
        /\ callers' = [callers EXCEPT ![c] =
               Delegate([r EXCEPT !.pulls = @ + 1], held.class, r.script, r.cursor)]
        /\ UNCHANGED <<environ, config, wrapper>>
        /\ UNCHANGED <<chatVars, parseVars, providerVars, webVars, dbVars>>

\* The caller closes the wrapper's generator: one not yet started ends
\* without having run; in a suspended one `yield from` closes the
\* provider's generator too.
CloseStream(c) ==
    LET r == callers[c]
    IN  /\ Built
        /\ r.pc \in {"created", "suspended"}
        /\ callers' = [callers EXCEPT ![c] = [r EXCEPT !.pc = "closed"]]
        /\ UNCHANGED <<environ, config, wrapper>>
        /\ UNCHANGED <<chatVars, parseVars, providerVars, webVars, dbVars>>

NextFacade ==
    \/ ConstructConfig
    \/ ConstructWrapper
    \/ \E c \in Callers : EnterGenerate(c)
    \/ \E c \in Callers : EnterChat(c)
    \/ \E c \in Callers : CallProviderGenerate(c)
    \/ \E c \in Callers : ReturnGenerate(c)
    \/ \E c \in Callers : GetModels(c)
    \/ \E c \in Callers : EnterGenerateStream(c)
    \/ \E c \in Callers : FirstNext(c)
    \/ \E c \in Callers : LaterNext(c)
    \/ \E c \in Callers : CloseStream(c)

SpecFacade == InitFacade /\ [][NextFacade]_vars

(***************************************************************************)
(* The web application  (web/app.py, web/database.py,                      *)
(* web/database_service.py)                                                *)
(***************************************************************************)

\* An exception, and str(e) of it.
Exc(type, message) == [kind |-> "raise", type |-> type, message |-> message]

\* DatabaseConfig.__init__ (database.py 24-31).
NewDatabaseConfig(env) ==
    IF ~Truthy(env.SUPABASE_URL) \/ ~Truthy(env.SUPABASE_ANON_KEY)
    THEN Exc("ValueError",
             "Supabase configuration missing. Please set SUPABASE_URL " \o
             "and SUPABASE_ANON_KEY environment variables.")
    ELSE [kind |-> "return",
          value |-> [supabase_url |-> env.SUPABASE_URL[1],
                     supabase_key |-> env.SUPABASE_ANON_KEY[1]]]

\* DatabaseConfig.get_client (database.py 33-38); create_client raises or
\* returns a client.
get_client(cfg, create_client) ==
    IF create_client.kind = "raise"
    THEN Exc("ConnectionError",
             "Failed to connect to Supabase: " \o create_client.message)
    ELSE [kind |-> "return", value |-> [url |-> cfg.supabase_url]]

\* The module body of database.py (41-42), run by the import of
\* database_service (database_service.py 9), which app.py 38 imports
\* outside any try statement.
ImportDatabase(env, create_client) ==
    LET cfg == NewDatabaseConfig(env)
    IN  IF cfg.kind = "raise" THEN cfg
        ELSE get_client(cfg.value, create_client)

\* app.py 46-51: the wrapper, or None after the ValueError of Config.
InitLLM(env) ==
    LET cfg == from_env(env)
    IN  IF cfg.state = "raised" THEN None
        ELSE Some(NewWrapper(None, Some(cfg), env))

\* app.py 54-58 and DatabaseService.__init__ (database_service.py 35-36):
\* get_supabase_client() returns the client the import made and raises
\* nothing.
InitDatabaseService(client) == Some([supabase |-> client])

\* The methods class DatabaseService defines (database_service.py 35-370).
DatabaseServiceMethods ==
    {"__init__", "_parse_datetime", "_handle_supabase_error",
     "get_all_foods", "get_food_by_id", "create_food",
     "get_meal_plan_by_id", "create_meal_plan", "add_meal_to_plan",
     "delete_meal", "add_food_to_meal", "remove_food_from_meal",
     "update_food_quantity"}

\* db_service.<name>: the bound method, or the AttributeError of a name
\* the class does not define.
GetMethod(name) ==
    IF name \in DatabaseServiceMethods
    THEN [kind |-> "return", value |-> name]
    ELSE Exc("AttributeError",
             "'DatabaseService' object has no attribute '" \o name \o "'")

\* The exception classes of database_service.py 12-30 and their bases.
DatabaseErrors ==
    {"DatabaseError", "FoodNotFoundError", "MealPlanNotFoundError",
     "MealNotFoundError", "ValidationError"}

IsInstance(e, class) ==
    \/ e.type = class
    \/ class = "DatabaseError" /\ e.type \in DatabaseErrors
    \/ class = "Exception"

(***************************************************************************)
(* DatabaseService  (web/database_service.py) and the table store          *)
(***************************************************************************)

Digits == "0123456789"

\* str(n) of a natural number.
RECURSIVE ToText(_)
ToText(n) ==
    IF n < 10 THEN CharAt(Digits, n + 1)
    ELSE ToText(n \div 10) \o CharAt(Digits, (n % 10) + 1)

UpperCase == "ABCDEFGHIJKLMNOPQRSTUVWXYZ"
LowerCase == "abcdefghijklmnopqrstuvwxyz"

LowerChar(c) ==
    IF \E i \in 1..Len(UpperCase) : CharAt(UpperCase, i) = c
    THEN CharAt(LowerCase,
                CHOOSE i \in 1..Len(UpperCase) : CharAt(UpperCase, i) = c)
    ELSE c

\* str.lower().
RECURSIVE Lower(_)
Lower(s) ==
    IF s = "" THEN "" ELSE LowerChar(CharAt(s, 1)) \o Lower(Sub(s, 2, Len(s)))

\* The elements of a finite set as a list, in an order the code does not
\* choose (the order in which the store returns rows it was not asked to
\* order by a column the model compares).
RECURSIVE Listed(_)
Listed(S) ==
    IF S = {} THEN <<>>
    ELSE LET x == CHOOSE y \in S : TRUE IN <<x>> \o Listed(S \ {x})

\* The store: the four tables, each a function from row id to row, and the
\* number of ids generated so far.  The code reaches it through
\* self.supabase.table(name)...execute()
StoreOf(food_rows, plan_rows, meal_rows, meal_food_rows, seq) ==
    [foods |-> food_rows, meal_plans |-> plan_rows, meals |-> meal_rows,
     meal_foods |-> meal_food_rows, id_seq |-> seq]

\* The ids of the rows of a table that .eq(column, value) keeps.
Matching(rows, column, value) ==
    {id \in DOMAIN rows : rows[id][column] = value}

\* A table after .delete() of the rows with these ids.
Without(rows, ids) == [id \in DOMAIN rows \ ids |-> rows[id]]

\* The id the store gives the next inserted row.
NewId(db, prefix) == prefix \o "-" \o ToText(db.id_seq + 1)

\* The store after .insert(row) into a table.
Inserted(db, table, prefix, row) ==
    [db EXCEPT ![table] = @ @@ (NewId(db, prefix) :> row), !.id_seq = @ + 1]

\* What one execute() does: the store carries the request out and answers
\* with the rows concerned, or answers an insert or an update with no rows
\* and stores nothing, or raises.  A script lists the outcomes of the
\* execute() calls of one operation, in the order of the calls; calls past
\* its end are carried out.
Done == [kind |-> "ok"]
NoData == [kind |-> "empty"]

Outcome(script, k) == IF k <= Len(script) THEN script[k] ELSE Done

\* What an operation leaves: the store after it, and what it returned or
\* raised.
Op(db, outcome) == [db |-> db, result |-> outcome]

\* _handle_supabase_error, with the `meal` branch of the not-found case
\* missing.
HandleErrorWithoutMeal(error, operation) ==
    LET error_msg == Lower(error.message)
    IN  IF Occurs("connection", error_msg) \/ Occurs("network", error_msg)
        THEN Exc("DatabaseError",
                 "Database connection failed during " \o operation \o ". "
                 \o "Please check your internet connection and try again.")
        ELSE IF Occurs("not found", error_msg)
                \/ Occurs("does not exist", error_msg)
        THEN IF Occurs("food", Lower(operation))
             THEN Exc("FoodNotFoundError",
                      "Food item not found during " \o operation \o ".")
             ELSE IF Occurs("meal_plan", Lower(operation))
             THEN Exc("MealPlanNotFoundError",
                      "Meal plan not found during " \o operation \o ".")
             ELSE Returned(None)
        ELSE IF Occurs("validation", error_msg)
                \/ Occurs("constraint", error_msg)
        THEN Exc("ValidationError",
                 "Data validation failed during " \o operation
                 \o ". Please check your input.")
        ELSE Exc("DatabaseError",
                 "Database operation failed during " \o operation \o ". "
                 \o "Error: " \o error.message \o ". Please try again or "
                 \o "contact support if the problem persists.")

\* DatabaseService._handle_supabase_error (database_service.py 44-66):
\* the exception it raises, or the None it returns when the not-found
\* branch matches no operation.
_handle_supabase_error(error, operation) ==
    LET error_msg == Lower(error.message)
    IN  IF Occurs("connection", error_msg) \/ Occurs("network", error_msg)
        THEN Exc("DatabaseError",
                 "Database connection failed during " \o operation \o ". "
                 \o "Please check your internet connection and try again.")
        ELSE IF Occurs("not found", error_msg)
                \/ Occurs("does not exist", error_msg)
        THEN IF Occurs("food", Lower(operation))
             THEN Exc("FoodNotFoundError",
                      "Food item not found during " \o operation \o ".")
             ELSE IF Occurs("meal_plan", Lower(operation))
             THEN Exc("MealPlanNotFoundError",
                      "Meal plan not found during " \o operation \o ".")
             ELSE IF Occurs("meal", Lower(operation))
             THEN Exc("MealNotFoundError",
                      "Meal not found during " \o operation \o ".")
             ELSE Returned(None)
        ELSE IF Occurs("validation", error_msg)
                \/ Occurs("constraint", error_msg)
        THEN Exc("ValidationError",
                 "Data validation failed during " \o operation
                 \o ". Please check your input.")
        ELSE Exc("DatabaseError",
                 "Database operation failed during " \o operation \o ". "
                 \o "Error: " \o error.message \o ". Please try again or "
                 \o "contact support if the problem persists.")

\* `except Exception as e: self._handle_supabase_error(e, operation)`, the
\* last clause of every operation: the method raises what the helper
\* raises, or returns None after it.
Caught(db, e, operation) == Op(db, _handle_supabase_error(e, operation))

\* The dataclasses of models.py, built as the operations build them
\* (fiber_per_100g and the timestamps, which are None, left out).
Food(id, item) ==
    [id |-> id, name |-> item.name,
     calories_per_100g |-> item.calories_per_100g,
     protein_per_100g |-> item.protein_per_100g,
     carbs_per_100g |-> item.carbs_per_100g,
     fat_per_100g |-> item.fat_per_100g,
     is_default |-> item.is_default]

MealFood(id, item, food) ==
    [id |-> id, meal_id |-> item.meal_id, food_id |-> item.food_id,
     quantity_grams |-> item.quantity_grams, food |-> food]

Meal(id, item, meal_foods_list) ==
    [id |-> id, meal_plan_id |-> item.meal_plan_id, name |-> item.name,
     emoji |-> item.emoji, order_index |-> item.order_index,
     foods |-> meal_foods_list]

MealPlan(id, item, meals_list) ==
    [id |-> id, name |-> item.name, meals |-> meals_list]

\* get_all_foods (database_service.py 69-93): the list it returns, as
\* a record so that the empty list is not None.
get_all_foods(db, script) ==
    LET response == Outcome(script, 1)
    IN  IF response.kind = "raise" THEN Caught(db, response, "get_all_foods")
        ELSE Op(db, Returned([items |-> Listed({Food(id, db.foods[id]) :
                                                   id \in DOMAIN db.foods})]))

\* get_food_by_id (database_service.py 95-119).
get_food_by_id(db, food_id, script) ==
    LET operation == "get_food_by_id(" \o food_id \o ")"
        response == Outcome(script, 1)
    IN  IF response.kind = "raise" THEN Caught(db, response, operation)
        ELSE IF food_id \notin DOMAIN db.foods
        THEN Op(db, Exc("FoodNotFoundError",
                        "Food with ID " \o food_id \o " not found."))
        ELSE Op(db, Returned(Food(food_id, db.foods[food_id])))

\* create_food (database_service.py 121-153).
create_food(db, food, script) ==
    LET operation == "create_food(" \o food.name \o ")"
        response == Outcome(script, 1)
        food_data == [name |-> food.name,
                      calories_per_100g |-> food.calories_per_100g,
                      protein_per_100g |-> food.protein_per_100g,
                      carbs_per_100g |-> food.carbs_per_100g,
                      fat_per_100g |-> food.fat_per_100g,
                      is_default |-> food.is_default]
    IN  IF response.kind = "raise" THEN Caught(db, response, operation)
        ELSE IF response.kind = "empty"
        THEN Caught(db, Exc("DatabaseError",
                            "Failed to create food item. No data returned."),
                    operation)
        ELSE Op(Inserted(db, "foods", "food", food_data),
                Returned(Food(NewId(db, "food"), food_data)))

\* The rows .order("order_index") returns, as a list of ids: ascending,
\* rows of equal order_index in an order the code does not choose.
RECURSIVE OrderByIndex(_, _)
OrderByIndex(rows, ids) ==
    IF ids = {} THEN <<>>
    ELSE LET first == CHOOSE id \in ids :
                 \A other \in ids :
                     rows[id].order_index <= rows[other].order_index
         IN  <<first>> \o OrderByIndex(rows, ids \ {first})

\* select("*, foods(*)") on meal_foods: each row with its food row, or
\* with None when the food is gone.
JoinedFood(db, meal_food_id) ==
    LET food_id == db.meal_foods[meal_food_id].food_id
    IN  IF food_id \in DOMAIN db.foods
        THEN Some(Food(food_id, db.foods[food_id])) ELSE None

\* The inner loop of get_meal_plan_by_id (database_service.py 175-196) for
\* one meal: its MealFood list, or the TypeError of food_data["id"] on a
\* row without its food.
MealFoodsOf(db, meal_id) ==
    LET ids == Matching(db.meal_foods, "meal_id", meal_id)
    IN  IF \E id \in ids : JoinedFood(db, id) = None
        THEN Exc("TypeError", "'NoneType' object is not subscriptable")
        ELSE Returned(Listed({MealFood(id, db.meal_foods[id],
                                       JoinedFood(db, id)[1]) : id \in ids}))

\* get_meal_plan_by_id (database_service.py 156-218): execute() call 1
\* reads the plan, call 2 its meals, call 2 + i the foods of the i-th meal.
get_meal_plan_by_id(db, meal_plan_id, script) ==
    LET operation == "get_meal_plan_by_id(" \o meal_plan_id \o ")"
        order == OrderByIndex(db.meals,
                     Matching(db.meals, "meal_plan_id", meal_plan_id))
        Step(i) == IF Outcome(script, 2 + i).kind = "raise"
                   THEN Outcome(script, 2 + i)
                   ELSE MealFoodsOf(db, order[i])
        failing == {i \in 1..Len(order) : Step(i).kind = "raise"}
    IN  IF Outcome(script, 1).kind = "raise"
        THEN Caught(db, Outcome(script, 1), operation)
        ELSE IF meal_plan_id \notin DOMAIN db.meal_plans
        THEN Op(db, Exc("MealPlanNotFoundError",
                        "Meal plan with ID " \o meal_plan_id \o " not found."))
        ELSE IF Outcome(script, 2).kind = "raise"
        THEN Caught(db, Outcome(script, 2), operation)
        ELSE IF failing # {}
        THEN Caught(db, Step(Min(failing)), operation)
        ELSE Op(db, Returned(MealPlan(meal_plan_id,
                    db.meal_plans[meal_plan_id],
                    [i \in 1..Len(order) |->
                        Meal(order[i], db.meals[order[i]], Step(i).value)])))

\* create_meal_plan (database_service.py 220-241).
create_meal_plan(db, name, script) ==
    LET operation == "create_meal_plan(" \o name \o ")"
        response == Outcome(script, 1)
        meal_plan_data == [name |-> name]
    IN  IF response.kind = "raise" THEN Caught(db, response, operation)
        ELSE IF response.kind = "empty"
        THEN Caught(db, Exc("DatabaseError",
                            "Failed to create meal plan. No data returned."),
                    operation)
        ELSE Op(Inserted(db, "meal_plans", "plan", meal_plan_data),
                Returned(MealPlan(NewId(db, "plan"), meal_plan_data, <<>>)))

\* Every new meal goes to position 0.
NextOrderAlwaysFirst(db, meal_plan_id) == 0

\* The first half of add_meal_to_plan (database_service.py 246-251): the
\* select of the largest order_index of the plan, and next_order.
NextOrder(db, meal_plan_id) ==
    LET ids == Matching(db.meals, "meal_plan_id", meal_plan_id)
    IN  IF ids = {} THEN 0
        ELSE Max({db.meals[id].order_index : id \in ids}) + 1

\* The second half of add_meal_to_plan (database_service.py 253-273): the
\* insert of the meal at next_order.
InsertMeal(db, meal_plan_id, name, emoji, next_order, response) ==
    LET operation == "add_meal_to_plan(" \o meal_plan_id \o ", " \o name \o ")"
        meal_data == [meal_plan_id |-> meal_plan_id, name |-> name,
                      emoji |-> emoji, order_index |-> next_order]
    IN  IF response.kind = "raise" THEN Caught(db, response, operation)
        ELSE IF response.kind = "empty"
        THEN Caught(db, Exc("DatabaseError",
                            "Failed to create meal. No data returned."),
                    operation)
        ELSE Op(Inserted(db, "meals", "meal", meal_data),
                Returned(Meal(NewId(db, "meal"), meal_data, <<>>)))

\* add_meal_to_plan (database_service.py 243-275).
add_meal_to_plan(db, meal_plan_id, name, emoji, script) ==
    LET operation == "add_meal_to_plan(" \o meal_plan_id \o ", " \o name \o ")"
    IN  IF Outcome(script, 1).kind = "raise"
        THEN Caught(db, Outcome(script, 1), operation)
        ELSE InsertMeal(db, meal_plan_id, name, emoji,
                        NextOrder(db, meal_plan_id), Outcome(script, 2))

\* The rows of the meal are left where they are.
KeepMealFoods(rows, meal_id) == rows

\* The first statement of delete_meal (database_service.py 281): the
\* meal_foods table after the delete of the rows of the meal.
DeleteMealFoods(rows, meal_id) ==
    Without(rows, Matching(rows, "meal_id", meal_id))

\* delete_meal (database_service.py 277-291).
delete_meal(db, meal_id, script) ==
    LET operation == "delete_meal(" \o meal_id \o ")"
        emptied == [db EXCEPT !.meal_foods = DeleteMealFoods(@, meal_id)]
    IN  IF Outcome(script, 1).kind = "raise"
        THEN Caught(db, Outcome(script, 1), operation)
        ELSE IF Outcome(script, 2).kind = "raise"
        THEN Caught(emptied, Outcome(script, 2), operation)
        ELSE IF meal_id \notin DOMAIN db.meals
        THEN Op(emptied, Exc("MealNotFoundError",
                    "Meal with ID " \o meal_id
                    \o " not found or already deleted."))
        ELSE Op([emptied EXCEPT !.meals = Without(@, {meal_id})],
                Returned(None))

\* add_food_to_meal (database_service.py 293-321): execute() call 1 is
\* the one get_food_by_id makes.
add_food_to_meal(db, meal_id, food_id, quantity_grams, script) ==
    LET operation == "add_food_to_meal(" \o meal_id \o ", " \o food_id \o ")"
        found == get_food_by_id(db, food_id, script).result
        response == Outcome(script, 2)
        meal_food_data == [meal_id |-> meal_id, food_id |-> food_id,
                           quantity_grams |-> quantity_grams]
    IN  IF found.kind = "raise" THEN Op(db, found)
        ELSE IF response.kind = "raise" THEN Caught(db, response, operation)
        ELSE IF response.kind = "empty"
        THEN Op(db, Exc("DatabaseError",
                        "Failed to add food to meal. No data returned."))
        ELSE Op(Inserted(db, "meal_foods", "mf", meal_food_data),
                Returned(MealFood(NewId(db, "mf"), meal_food_data,
                                  found.value)))

\* remove_food_from_meal (database_service.py 323-331).
remove_food_from_meal(db, meal_food_id, script) ==
    LET operation == "remove_food_from_meal(" \o meal_food_id \o ")"
    IN  IF Outcome(script, 1).kind = "raise"
        THEN Caught(db, Outcome(script, 1), operation)
        ELSE IF meal_food_id \notin DOMAIN db.meal_foods
        THEN Caught(db, Exc("DatabaseError",
                            "Meal food with ID " \o meal_food_id
                            \o " not found or already deleted."),
                    operation)
        ELSE Op([db EXCEPT !.meal_foods = Without(@, {meal_food_id})],
                Returned(None))

\* update_food_quantity (database_service.py 333-370).
update_food_quantity(db, meal_food_id, quantity_grams, script) ==
    LET operation == "update_food_quantity(" \o meal_food_id \o ")"
        response == Outcome(script, 2)
    IN  IF Outcome(script, 1).kind = "raise"
        THEN Caught(db, Outcome(script, 1), operation)
        ELSE IF meal_food_id \notin DOMAIN db.meal_foods
        THEN Caught(db, Exc("DatabaseError",
                            "Meal food with ID " \o meal_food_id
                            \o " not found."),
                    operation)
        ELSE IF JoinedFood(db, meal_food_id) = None
        THEN Caught(db, Exc("TypeError",
                            "'NoneType' object is not subscriptable"),
                    operation)
        ELSE IF response.kind = "raise" THEN Caught(db, response, operation)
        ELSE IF response.kind = "empty"
        THEN Caught(db, Exc("DatabaseError",
                        "Failed to update food quantity. No data returned."),
                    operation)
        ELSE LET updated == [db.meal_foods[meal_food_id] EXCEPT
                                 !.quantity_grams = quantity_grams]
             IN  Op([db EXCEPT !.meal_foods[meal_food_id] = updated],
                    Returned(MealFood(meal_food_id, updated,
                                      JoinedFood(db, meal_food_id)[1])))

\* jsonify(body), status.
Json(status, body) == [status |-> status, kind |-> "json", body |-> body]

\* An exception no handler code catches: Flask answers with its own
\* "Internal Server Error" page.
Unhandled(e) ==
    [status |-> 500, kind |-> "html",
     body |-> [title |-> "500 Internal Server Error", exception |-> e.type]]

\* What a handler does: its response and the llm.generate call it made.
Handled(response, generate_call) ==
    [response |-> response, llm_call |-> generate_call]

\* request.get_json() followed by data.get(...) (app.py 228-231, 548-549,
\* 635-636): the body is a JSON object, or one of the two raises.
BodyError(body) ==
    IF body.json = "malformed"
    THEN Exc("BadRequest",
             "400 Bad Request: The browser (or proxy) sent a request " \o
             "that this server could not understand.")
    ELSE Exc("AttributeError", "'list' object has no attribute 'get'")

\* {value} inside an f-string, for None and for a string.
Format(x) == IF x = None THEN "None" ELSE x[1]

\* The text of the file is returned as it was read.
load_system_prompt_verbatim(file) ==
    IF file = None
    THEN Exc("FileNotFoundError",
             "nutritionist_system_prompt.txt file not found.")
    ELSE [kind |-> "return", value |-> file[1]]

\* load_system_prompt() (app.py 60-77): f.read().strip().
load_system_prompt(file) ==
    IF file = None
    THEN Exc("FileNotFoundError",
             "nutritionist_system_prompt.txt file not found.")
    ELSE [kind |-> "return", value |-> Strip(file[1])]

\* The f-string of app.py 648.
FullPrompt(system_prompt, meal_plan_context, user_message) ==
    system_prompt \o "\n\n" \o Format(meal_plan_context)
        \o "\n\nUser request: " \o Format(user_message)

\* llm.generate(...) of a wrapper made by app.py 48: the Anthropic
\* provider's result, passed through (core.py 47).
LLMGenerate(wrapped, outcome) ==
    Propagated(GenerateResult(wrapped.provider.class, outcome))

\* The success payload (app.py 661-666).
ChatPayload(parsed_response) ==
    [chat |-> parsed_response.chat,
     meal_plan |-> parsed_response.meal_plan,
     raw_response |-> parsed_response.raw_response,
     parsing_error |-> parsed_response.parsing_error]

\* nutritionist_chat() (app.py 607-669).
nutritionist_chat(body, wrapped, file, outcome) ==
    IF wrapped = None
    THEN Handled(Json(500, [error |->
             "LLM wrapper not initialized. Check your API key."]), None)
    ELSE IF body.json # "object"
    THEN Handled(Json(500, [error |-> BodyError(body).message]), None)
    ELSE
    LET data == body.data
        user_message == DictGet(data, "message", Some(""))
        meal_plan_context == DictGet(data, "meal_plan_context", Some(""))
        model == DictGet(data, "model", Some("claude-3-5-haiku-20241022"))
        temperature == DictGet(data, "temperature", Some("0.7"))
        max_tokens == DictGet(data, "max_tokens", Some(1000))
        loaded == load_system_prompt(file)
    IN  IF ~Truthy(user_message)
        THEN Handled(Json(400, [error |-> "Message is required"]), None)
        ELSE IF loaded.kind = "raise"
        THEN Handled(Json(500, [error |-> loaded.message]), None)
        ELSE
        LET generate_call ==
                [prompt |-> FullPrompt(loaded.value, meal_plan_context,
                                       user_message),
                 model |-> model, temperature |-> temperature,
                 max_tokens |-> max_tokens]
            raw_response == LLMGenerate(wrapped[1], outcome)
        IN  IF raw_response.kind = "raise"
            THEN Handled(Json(500, [error |-> raw_response.message]),
                         Some(generate_call))
            ELSE Handled(Json(200, ChatPayload(
                             parse_nutritionist_response(raw_response.value[1]))),
                         Some(generate_call))

\* The f-string of app.py 555-567.
MacrosPrompt(food_name) ==
    "You are a nutritionist AI. Given a food name, provide accurate "
    \o "nutritional information per 100g.\n\nFood: " \o food_name \o "\n\n"
    \o "Respond in this exact JSON format (no other text):\n{\n"
    \o "    \"calories_per_100g\": number,\n"
    \o "    \"protein_per_100g\": number,\n"
    \o "    \"carbs_per_100g\": number,\n"
    \o "    \"fat_per_100g\": number\n}\n\n"
    \o "Provide realistic, accurate nutritional data based on standard "
    \o "food databases."

RequiredFields ==
    {"calories_per_100g", "protein_per_100g", "carbs_per_100g", "fat_per_100g"}

\* The fallback payload (app.py 596-601), each float as its text.
FallbackMacros ==
    [calories_per_100g |-> "100.0", protein_per_100g |-> "5.0",
     carbs_per_100g |-> "10.0", fat_per_100g |-> "3.0"]

\* The inner try of generate_macros (app.py 579-601) on the value
\* json.loads gave for the model's text: `loads` says what kind of JSON
\* value the text is and, for an object, which keys it has and which of
\* them hold something other than a non-negative number.  `field in` works
\* on a list and on a string (no field is in them) and raises TypeError on
\* a number, a boolean and null, which the inner except clause (app.py
\* 594) does not name: the outer one (603-604) answers.
MacrosFromAnswer(raw_response, loads) ==
    IF loads.kind = "invalid" THEN Json(200, FallbackMacros)
    ELSE IF loads.kind = "scalar"
    THEN Json(500, [error |-> "argument of type '" \o loads.type
                                  \o "' is not iterable"])
    ELSE IF loads.kind \in {"array", "string"} THEN Json(200, FallbackMacros)
    ELSE IF ~(RequiredFields \subseteq loads.keys)
    THEN Json(200, FallbackMacros)
    ELSE IF loads.bad \cap RequiredFields # {}
    THEN Json(200, FallbackMacros)
    ELSE Json(200, [object |-> Strip(raw_response)])

\* generate_macros() (app.py 528-604).
generate_macros(body, wrapped, outcome) ==
    IF wrapped = None
    THEN Handled(Json(500, [error |->
             "LLM wrapper not initialized. Check your API key."]), None)
    ELSE IF body.json # "object"
    THEN Handled(Json(500, [error |-> BodyError(body).message]), None)
    ELSE
    LET given == DictGet(body.data, "food_name", Some(""))
    IN  IF given = None
        THEN Handled(Json(500, [error |->
                 "'NoneType' object has no attribute 'strip'"]), None)
        ELSE IF Strip(given[1]) = ""
        THEN Handled(Json(400, [error |-> "food_name is required"]), None)
        ELSE
        LET generate_call ==
                [prompt |-> MacrosPrompt(Strip(given[1])),
                 model |-> Some("claude-3-5-haiku-20241022"),
                 temperature |-> Some("0.3"), max_tokens |-> Some(200)]
            raw_response == LLMGenerate(wrapped[1], outcome)
        IN  IF raw_response.kind = "raise"
            THEN Handled(Json(500, [error |-> raw_response.message]),
                         Some(generate_call))
            ELSE Handled(MacrosFromAnswer(raw_response.value[1], outcome.loads),
                         Some(generate_call))

\* get_models() (app.py 144-160).
get_models(wrapped) ==
    IF wrapped = None
    THEN Handled(Json(500, [error |-> "LLM wrapper not initialized"]), None)
    ELSE Handled(Json(200, [models |->
                     AvailableModels(wrapped[1].provider.class)]), None)

\* index() (app.py 133-141): render_template is called outside any try
\* statement.
index(template_found) ==
    IF template_found THEN Handled([status |-> 200, kind |-> "html",
                                    body |-> [title |-> "index.html"]], None)
    ELSE Handled(Unhandled(Exc("TemplateNotFound", "index.html")), None)

\* The except clauses of update_food (app.py 259-266), in their order.
UpdateFoodExcept(e) ==
    IF IsInstance(e, "FoodNotFoundError") THEN Json(404, [error |-> e.message])
    ELSE IF IsInstance(e, "ValidationError") THEN Json(400, [error |-> e.message])
    ELSE IF IsInstance(e, "DatabaseError") THEN Json(500, [error |-> e.message])
    ELSE Json(500, [error |-> "Unexpected error: " \o e.message])

\* update_food(food_id) (app.py 221-266).  Line 244 looks up
\* db_service.update_food, which class DatabaseService does not define.
update_food(food_id, body, service) ==
    IF service = None
    THEN Handled(Json(500, [error |-> "Database service not initialized"]), None)
    ELSE IF body.json # "object"
    THEN Handled(UpdateFoodExcept(BodyError(body)), None)
    ELSE
    LET data == body.data
        values == [f \in RequiredFields |-> DictGet(data, f, None)]
    IN  IF \E f \in RequiredFields : values[f] = None
        THEN Handled(Json(400, [error |->
                 "All nutritional values are required"]), None)
        ELSE Handled(UpdateFoodExcept(GetMethod("update_food")), None)

\* The except clauses of add_food_to_meal (app.py 470-475), in their order.
AddFoodToMealExcept(e) ==
    IF IsInstance(e, "FoodNotFoundError") \/ IsInstance(e, "ValidationError")
    THEN Json(400, [error |-> e.message])
    ELSE IF IsInstance(e, "DatabaseError") THEN Json(500, [error |-> e.message])
    ELSE Json(500, [error |-> "Unexpected error: " \o e.message])

\* What a handler that writes the store does: its response and the store
\* after it.
Stored(response, db) == [response |-> response, db |-> db]

\* add_food_to_meal() (app.py 409-475).  The computed calories, protein,
\* carbs and fat of the 201 payload are left out.  Line 452 looks up
\* db_service.add_direct_food_to_meal, which class DatabaseService does
\* not define.
add_food_to_meal_handler(body, service, db, script) ==
    IF service = None
    THEN Stored(Json(500, [error |-> "Database service not initialized"]), db)
    ELSE IF body.json # "object"
    THEN Stored(AddFoodToMealExcept(BodyError(body)), db)
    ELSE
    LET data == body.data
        meal_id == DictGet(data, "meal_id", None)
        quantity_grams == DictGet(data, "quantity_grams", None)
        food_id == DictGet(data, "food_id", None)
        food_name == DictGet(data, "food_name", None)
    IN  IF ~Truthy(meal_id) \/ quantity_grams = None
        THEN Stored(Json(400, [error |->
                 "meal_id and quantity_grams are required"]), db)
        ELSE IF Truthy(food_id)
        THEN LET done == add_food_to_meal(db, meal_id[1], food_id[1],
                                          quantity_grams[1], script)
                 meal_food == done.result.value
             IN  IF done.result.kind = "raise"
                 THEN Stored(AddFoodToMealExcept(done.result), done.db)
                 ELSE IF meal_food = None
                 THEN Stored(AddFoodToMealExcept(Exc("AttributeError",
                          "'NoneType' object has no attribute 'id'")), done.db)
                 ELSE Stored(Json(201, [meal_food |->
                          [id |-> meal_food.id, meal_id |-> meal_food.meal_id,
                           food_id |-> meal_food.food_id,
                           food_name |-> meal_food.food.name,
                           quantity_grams |-> meal_food.quantity_grams]]),
                        done.db)
        ELSE IF ~Truthy(food_name)
        THEN Stored(Json(400, [error |->
                 "food_name is required for direct food addition"]), db)
        ELSE Stored(AddFoodToMealExcept(GetMethod("add_direct_food_to_meal")),
                    db)

\* The except clauses of delete_meal (app.py 400-405), in their order.
DeleteMealExcept(e) ==
    IF IsInstance(e, "MealNotFoundError") THEN Json(404, [error |-> e.message])
    ELSE IF IsInstance(e, "DatabaseError") THEN Json(500, [error |-> e.message])
    ELSE Json(500, [error |-> "Unexpected error: " \o e.message])

\* delete_meal(meal_id) (app.py 391-405).
delete_meal_handler(meal_id, service, db, script) ==
    IF service = None
    THEN Stored(Json(500, [error |-> "Database service not initialized"]), db)
    ELSE LET done == delete_meal(db, meal_id, script)
         IN  IF done.result.kind = "raise"
             THEN Stored(DeleteMealExcept(done.result), done.db)
             ELSE Stored(Json(200, [message |-> "Meal deleted successfully"]),
                         done.db)

(***************************************************************************)
(* Inputs of the web application                                           *)
(***************************************************************************)

WebEnvirons ==
    [ANTHROPIC_API_KEY : {None, Some("sk-ant-env")},
     SUPABASE_URL : {None, Some("https://db.example.co")},
     SUPABASE_ANON_KEY : {None, Some("anon-key")}]

\* nutritionist_system_prompt.txt, missing or with its text, and whether
\* templates/index.html is there.
WebFiles ==
    [system_prompt : {None, Some("You are a nutritionist.\n"),
                      Some("Be brief.")},
     index_html : BOOLEAN]

CreateClientOutcomes ==
    {[kind |-> "return"], Exc("SupabaseException", "Invalid URL")}

FoodRow(name, calories) ==
    [name |-> name, calories_per_100g |-> calories, protein_per_100g |-> 3,
     carbs_per_100g |-> 28, fat_per_100g |-> 0, is_default |-> FALSE]

InitialFoods == [id \in {"food-1"} |-> FoodRow("Rice", 130)]

FoodIds == {"food-1", "food-9"}

NotAnObject == {[json |-> "malformed"], [json |-> "array"]}

Object(data) == [json |-> "object", data |-> data]

ChatBodies ==
    NotAnObject \cup
    {Object(a @@ b @@ c) :
        a \in {<<>>, [message |-> None], [message |-> Some("")],
               [message |-> Some("Swap the rice")]},
        b \in {<<>>, [meal_plan_context |-> None],
               [meal_plan_context |-> Some("Lunch: rice 150g")]},
        c \in {<<>>, [model |-> Some("claude-3-haiku-20240307"),
                      temperature |-> Some("0.2"),
                      max_tokens |-> Some(300)]}}

ChatOutcomes ==
    {[kind |-> "error", type |-> "RateLimitError",
      message |-> "rate limit exceeded"],
     [kind |-> "response",
      items |-> <<Some("<chat>Done</chat><meal-plan>Oats</meal-plan>")>>],
     [kind |-> "response", items |-> <<Some("Sure, here it is.")>>]}

MacrosBodies ==
    NotAnObject \cup
    {Object(a) : a \in {<<>>, [food_name |-> None], [food_name |-> Some("  ")],
                        [food_name |-> Some(" Oats ")]}}

\* The model's text and what json.loads(text.strip()) makes of it.
MacrosAnswers ==
    {[kind |-> "response", items |-> <<Some("I think oats have 389 kcal.")>>,
      loads |-> [kind |-> "invalid"]],
     [kind |-> "response", items |-> <<Some("42")>>,
      loads |-> [kind |-> "scalar", type |-> "int"]],
     [kind |-> "response", items |-> <<Some("[389, 17, 66, 7]")>>,
      loads |-> [kind |-> "array"]],
     [kind |-> "response", items |-> <<Some("\"about 389 kcal\"")>>,
      loads |-> [kind |-> "string"]],
     [kind |-> "response", items |-> <<Some("{\"calories_per_100g\": 389}")>>,
      loads |-> [kind |-> "object", keys |-> {"calories_per_100g"},
                 bad |-> {}]],
     [kind |-> "response",
      items |-> <<Some("{\"calories_per_100g\": 389, \"protein_per_100g\": -1, "
                       \o "\"carbs_per_100g\": 66, \"fat_per_100g\": 7}")>>,
      loads |-> [kind |-> "object", keys |-> RequiredFields,
                 bad |-> {"protein_per_100g"}]],
     [kind |-> "response",
      items |-> <<Some(" {\"calories_per_100g\": 389, \"protein_per_100g\": 17, "
                       \o "\"carbs_per_100g\": 66, \"fat_per_100g\": 7}\n")>>,
      loads |-> [kind |-> "object", keys |-> RequiredFields, bad |-> {}]]}

MacrosOutcomes ==
    {[kind |-> "error", type |-> "RateLimitError",
      message |-> "rate limit exceeded"]} \cup MacrosAnswers

UpdateFoodBodies ==
    NotAnObject \cup
    {Object(a @@ b) :
        a \in {[calories_per_100g |-> Some(111), protein_per_100g |-> Some(2),
                carbs_per_100g |-> Some(23), fat_per_100g |-> Some(1)],
               [calories_per_100g |-> Some(111), protein_per_100g |-> Some(2),
                carbs_per_100g |-> Some(23)],
               [calories_per_100g |-> Some(111), protein_per_100g |-> None,
                carbs_per_100g |-> Some(23), fat_per_100g |-> Some(1)]},
        b \in {<<>>, [fiber_per_100g |-> Some(4)]}}

\* The rows of the other tables when the application starts: one plan
\* with one meal that holds one food.  Four ids are in use.
InitialPlans == [id \in {"plan-2"} |-> [name |-> "Today's Meal Plan"]]

InitialMeals ==
    [id \in {"meal-3"} |->
        [meal_plan_id |-> "plan-2", name |-> "Breakfast", emoji |-> "plate",
         order_index |-> 0]]

InitialMealFoods ==
    [id \in {"mf-4"} |->
        [meal_id |-> "meal-3", food_id |-> "food-1", quantity_grams |-> 150]]

InitialIds ==
    Cardinality(DOMAIN InitialFoods) + Cardinality(DOMAIN InitialPlans)
    + Cardinality(DOMAIN InitialMeals) + Cardinality(DOMAIN InitialMealFoods)

\* The store generates no more ids than this.
MaxIds == 6

\* The store as the service finds it, and the store as an operation leaves
\* it.
Db == StoreOf(foods, meal_plans, meals, meal_foods, id_seq)

StoreBecomes(db) ==
    /\ foods' = db.foods
    /\ meal_plans' = db.meal_plans
    /\ meals' = db.meals
    /\ meal_foods' = db.meal_foods
    /\ id_seq' = db.id_seq

\* Exceptions the store's client raises, one for each branch of
\* _handle_supabase_error.
StoreFaults ==
    {Exc("ConnectError", "[Errno 111] Connection refused"),
     Exc("APIError", "relation \"public.meals\" does not exist"),
     Exc("APIError", "violates foreign key constraint"),
     Exc("APIError", "permission denied for table")}

MealIds == {"meal-3", "meal-9"}

AddFoodBodies ==
    NotAnObject \cup
    {Object(a @@ b @@ c) :
        a \in {[meal_id |-> Some("meal-3"), quantity_grams |-> Some(150)],
               [meal_id |-> Some("meal-3")],
               [meal_id |-> Some(""), quantity_grams |-> Some(150)]},
        b \in {<<>>, [food_id |-> Some("food-1")], [food_id |-> Some("food-9")]},
        c \in {<<>>, [food_name |-> Some("Oats"),
                      calories_per_100g |-> Some(389)]}}

WebScripts ==
    {<<>>, <<Done, NoData>>,
     <<Done, Exc("APIError", "violates foreign key constraint")>>}

\* Before `python app.py`: the environment and the files are what they
\* are, and the tables have their rows.
InitWeb ==
    /\ ChatIdle
    /\ ParseIdle
    /\ ProviderIdle
    /\ environ \in WebEnvirons
    /\ config = NoObject
    /\ wrapper = NoObject
    /\ callers = <<>>
    /\ process = [state |-> "not started"]
    /\ files \in WebFiles
    /\ llm = None
    /\ db_service = None
    /\ foods = InitialFoods
    /\ http_request = NoRequestYet
    /\ llm_call = None
    /\ http_response = NoResponse
    /\ meal_plans = InitialPlans
    /\ meals = InitialMeals
    /\ meal_foods = InitialMealFoods
    /\ id_seq = InitialIds
    /\ db_call = NoCall
    /\ db_result = NoResult
    /\ requests = <<>>
    /\ seed_runs = <<>>

\* The module body of app.py runs (app.py 15-58): an exception of the
\* imports ends the process; otherwise the two globals are set and the
\* application serves.
ImportApp ==
    /\ process.state = "not started"
    /\ \E create_client \in CreateClientOutcomes :
           LET imported == ImportDatabase(environ, create_client)
           IN  IF imported.kind = "raise"
               THEN /\ process' = [state |-> "crashed", type |-> imported.type,
                                   message |-> imported.message]
                    /\ UNCHANGED <<llm, db_service>>
               ELSE /\ process' = [state |-> "serving"]
                    /\ llm' = InitLLM(environ)
                    /\ db_service' = InitDatabaseService(imported.value)
    /\ UNCHANGED <<files, foods, http_request, llm_call, http_response>>
    /\ UNCHANGED <<chatVars, parseVars, providerVars, facadeVars, dbVars>>

Serving == process.state = "serving"

\* A request is answered by a handler that does not write the store: the
\* handler's response, and its llm.generate call if it made one.
Answer(req, handled) ==
    /\ http_request' = req
    /\ http_response' = handled.response
    /\ llm_call' = handled.llm_call
    /\ UNCHANGED <<process, files, llm, db_service, foods>>
    /\ UNCHANGED <<chatVars, parseVars, providerVars, facadeVars, dbVars>>

\* GET /
HandleIndex ==
    /\ Serving
    /\ Answer([route |-> "index"], index(files.index_html))

\* GET /api/models
HandleGetModels ==
    /\ Serving
    /\ Answer([route |-> "get_models"], get_models(llm))

\* POST /api/nutritionist/chat
HandleNutritionistChat ==
    /\ Serving
    /\ \E body \in ChatBodies, outcome \in ChatOutcomes :
           Answer([route |-> "nutritionist_chat", body |-> body,
                   outcome |-> outcome],
                  nutritionist_chat(body, llm, files.system_prompt, outcome))

\* POST /api/ai/generate-macros
HandleGenerateMacros ==
    /\ Serving
    /\ \E body \in MacrosBodies, outcome \in MacrosOutcomes :
           Answer([route |-> "generate_macros", body |-> body,
                   outcome |-> outcome],
                  generate_macros(body, llm, outcome))

\* PUT /api/foods/<food_id>
HandleUpdateFood ==
    /\ Serving
    /\ \E food_id \in FoodIds, body \in UpdateFoodBodies :
           Answer([route |-> "update_food", food_id |-> food_id,
                   body |-> body],
                  update_food(food_id, body, db_service))

\* A request is answered by a handler that writes the store.
Write(req, stored) ==
    /\ http_request' = req
    /\ http_response' = stored.response
    /\ llm_call' = None
    /\ StoreBecomes(stored.db)
    /\ UNCHANGED <<process, files, llm, db_service>>
    /\ UNCHANGED <<db_call, db_result, requests, seed_runs>>
    /\ UNCHANGED <<chatVars, parseVars, providerVars, facadeVars>>

\* POST /api/meal-foods
HandleAddFoodToMeal ==
    /\ Serving
    /\ id_seq < MaxIds
    /\ \E body \in AddFoodBodies, script \in WebScripts :
           Write([route |-> "add_food_to_meal", body |-> body,
                  script |-> script, store |-> Db],
                 add_food_to_meal_handler(body, db_service, Db, script))

\* DELETE /api/meals/<meal_id>
HandleDeleteMeal ==
    /\ Serving
    /\ \E meal_id \in MealIds, script \in WebScripts :
           Write([route |-> "delete_meal", meal_id |-> meal_id,
                  script |-> script, store |-> Db],
                 delete_meal_handler(meal_id, db_service, Db, script))

NextWeb ==
    \/ ImportApp
    \/ HandleIndex
    \/ HandleGetModels
    \/ HandleNutritionistChat
    \/ HandleGenerateMacros
    \/ HandleUpdateFood

SpecWeb == InitWeb /\ [][NextWeb]_vars

\* The handlers that write the store, in an application whose database
\* is configured.
InitMeals ==
    /\ InitWeb
    /\ Truthy(environ.SUPABASE_URL)
    /\ Truthy(environ.SUPABASE_ANON_KEY)
    /\ files = [system_prompt |-> None, index_html |-> TRUE]

NextMeals ==
    \/ ImportApp
    \/ HandleAddFoodToMeal
    \/ HandleDeleteMeal

SpecMeals == InitMeals /\ [][NextMeals]_vars

(***************************************************************************)
(* DatabaseService called sequentially                                     *)
(***************************************************************************)

\* The scripts in which execute() call k is the first that does not go
\* well, with one of these outcomes.
Fails(k, outcomes) ==
    {[i \in 1..k |-> IF i < k THEN Done ELSE o] : o \in outcomes}

\* An insert or an update can also be answered without rows.
WriteFaults == StoreFaults \cup {NoData}

NewFoods ==
    {[name |-> "Oats", calories_per_100g |-> 389, protein_per_100g |-> 17,
      carbs_per_100g |-> 66, fat_per_100g |-> 7, is_default |-> FALSE]}

\* Ids a caller passes: those of the rows there are, and one of no row.
FoodIdsGiven == DOMAIN foods \cup {"food-9"}
PlanIdsGiven == DOMAIN meal_plans \cup {"plan-9"}
MealIdsGiven == DOMAIN meals \cup {"meal-9"}
MealFoodIdsGiven == DOMAIN meal_foods \cup {"mf-9"}

\* A DatabaseService object on a store that holds one food, and one plan
\* with one meal with one food.
InitDb ==
    /\ ChatIdle
    /\ ParseIdle
    /\ ProviderIdle
    /\ FacadeIdle
    /\ process = NoObject
    /\ files = NoObject
    /\ llm = None
    /\ db_service = None
    /\ foods = InitialFoods
    /\ http_request = NoRequestYet
    /\ llm_call = None
    /\ http_response = NoResponse
    /\ meal_plans = InitialPlans
    /\ meals = InitialMeals
    /\ meal_foods = InitialMealFoods
    /\ id_seq = InitialIds
    /\ db_call = NoCall
    /\ db_result = NoResult
    /\ requests = <<>>
    /\ seed_runs = <<>>

\* The caller calls an operation, which runs to its end: the store is as
\* the operation leaves it, and the caller holds what it returned or
\* raised.
Called(op, args, script, done) ==
    /\ db_call = NoCall
    /\ db_call' = [op |-> op, args |-> args, script |-> script, store |-> Db]
    /\ db_result' = done.result
    /\ StoreBecomes(done.db)
    /\ UNCHANGED <<requests, seed_runs>>
    /\ UNCHANGED <<process, files, llm, db_service, http_request, llm_call,
                   http_response>>
    /\ UNCHANGED <<chatVars, parseVars, providerVars, facadeVars>>

\* The caller has dealt with the result and is ready for its next call.
NextCall ==
    /\ db_call # NoCall
    /\ db_call' = NoCall
    /\ db_result' = NoResult
    /\ UNCHANGED <<tableVars, requests, seed_runs>>
    /\ UNCHANGED <<chatVars, parseVars, providerVars, facadeVars, webVars>>

GetAllFoods ==
    \E script \in {<<>>} \cup Fails(1, StoreFaults) :
        Called("get_all_foods", <<>>, script, get_all_foods(Db, script))

GetFoodById ==
    \E food_id \in FoodIdsGiven, script \in {<<>>} \cup Fails(1, StoreFaults) :
        Called("get_food_by_id", [food_id |-> food_id], script,
               get_food_by_id(Db, food_id, script))

CreateFood ==
    /\ id_seq < MaxIds
    /\ \E food \in NewFoods, script \in {<<>>} \cup Fails(1, WriteFaults) :
           Called("create_food", [food |-> food], script,
                  create_food(Db, food, script))

GetMealPlanById ==
    \E meal_plan_id \in PlanIdsGiven,
       script \in {<<>>} \cup Fails(1, StoreFaults) \cup Fails(2, StoreFaults)
                  \cup Fails(3, StoreFaults) :
        Called("get_meal_plan_by_id", [meal_plan_id |-> meal_plan_id], script,
               get_meal_plan_by_id(Db, meal_plan_id, script))

CreateMealPlan ==
    /\ id_seq < MaxIds
    /\ \E name \in {"Today's Meal Plan"},
          script \in {<<>>} \cup Fails(1, WriteFaults) :
           Called("create_meal_plan", [name |-> name], script,
                  create_meal_plan(Db, name, script))

AddMealToPlan ==
    /\ id_seq < MaxIds
    /\ \E meal_plan_id \in PlanIdsGiven, name \in {"Lunch"},
          script \in {<<>>} \cup Fails(1, StoreFaults) \cup Fails(2, WriteFaults) :
           Called("add_meal_to_plan",
                  [meal_plan_id |-> meal_plan_id, name |-> name,
                   emoji |-> "plate"], script,
                  add_meal_to_plan(Db, meal_plan_id, name, "plate", script))

DeleteMeal ==
    \E meal_id \in MealIdsGiven,
       script \in {<<>>} \cup Fails(1, StoreFaults) \cup Fails(2, StoreFaults) :
        Called("delete_meal", [meal_id |-> meal_id], script,
               delete_meal(Db, meal_id, script))

AddFoodToMeal ==
    /\ id_seq < MaxIds
    /\ \E meal_id \in MealIdsGiven, food_id \in FoodIdsGiven,
          script \in {<<>>} \cup Fails(1, StoreFaults) \cup Fails(2, WriteFaults) :
           Called("add_food_to_meal",
                  [meal_id |-> meal_id, food_id |-> food_id,
                   quantity_grams |-> 200], script,
                  add_food_to_meal(Db, meal_id, food_id, 200, script))

RemoveFoodFromMeal ==
    \E meal_food_id \in MealFoodIdsGiven,
       script \in {<<>>} \cup Fails(1, StoreFaults) :
        Called("remove_food_from_meal", [meal_food_id |-> meal_food_id],
               script, remove_food_from_meal(Db, meal_food_id, script))

UpdateFoodQuantity ==
    \E meal_food_id \in MealFoodIdsGiven,
       script \in {<<>>} \cup Fails(1, StoreFaults) \cup Fails(2, WriteFaults) :
        Called("update_food_quantity",
               [meal_food_id |-> meal_food_id, quantity_grams |-> 200], script,
               update_food_quantity(Db, meal_food_id, 200, script))

NextDb ==
    \/ GetAllFoods
    \/ GetFoodById
    \/ CreateFood
    \/ GetMealPlanById
    \/ CreateMealPlan
    \/ AddMealToPlan
    \/ DeleteMeal
    \/ AddFoodToMeal
    \/ RemoveFoodFromMeal
    \/ UpdateFoodQuantity
    \/ NextCall

SpecDb == InitDb /\ [][NextDb]_vars

(***************************************************************************)
(* DatabaseService.add_meal_to_plan called by concurrent requests          *)
(***************************************************************************)

\* POST /api/meals requests in flight at the same time (app.py 353-388:
\* each calls db_service.add_meal_to_plan, and nothing in app.py or in
\* DatabaseService makes one wait for another).
Requests == {"request1", "request2"}

IdleRequest == [pc |-> "idle"]

\* The service on the same store as in InitDb, and no request yet.
InitRace ==
    /\ ChatIdle
    /\ ParseIdle
    /\ ProviderIdle
    /\ FacadeIdle
    /\ process = NoObject
    /\ files = NoObject
    /\ llm = None
    /\ db_service = None
    /\ foods = InitialFoods
    /\ http_request = NoRequestYet
    /\ llm_call = None
    /\ http_response = NoResponse
    /\ meal_plans = InitialPlans
    /\ meals = InitialMeals
    /\ meal_foods = InitialMealFoods
    /\ id_seq = InitialIds
    /\ db_call = NoCall
    /\ db_result = NoResult
    /\ requests = [r \in Requests |-> IdleRequest]
    /\ seed_runs = <<>>

\* The requests that have read next_order and not inserted yet.
Reading == {r \in Requests : requests[r].pc = "read"}

\* A request arrives and add_meal_to_plan runs up to the end of its
\* select (database_service.py 246-251): the request holds next_order, or
\* is over when the select raised.
SelectLargestOrder(r) ==
    /\ requests[r].pc \in {"idle", "done"}
    /\ id_seq + Cardinality(Reading) < MaxIds
    /\ \E meal_plan_id \in DOMAIN meal_plans, name \in {"Lunch", "Dinner"},
          response \in {Done, Exc("ConnectError",
                                   "[Errno 111] Connection refused")} :
           requests' = [requests EXCEPT ![r] =
               IF response.kind = "raise"
               THEN [pc |-> "done", meal_plan_id |-> meal_plan_id,
                     name |-> name,
                     result |-> add_meal_to_plan(Db, meal_plan_id, name,
                                    "plate", <<response>>).result]
               ELSE [pc |-> "read", meal_plan_id |-> meal_plan_id,
                     name |-> name,
                     next_order |-> NextOrder(Db, meal_plan_id)]]
    /\ UNCHANGED <<tableVars, db_call, db_result, seed_runs>>
    /\ UNCHANGED <<chatVars, parseVars, providerVars, facadeVars, webVars>>

\* The rest of add_meal_to_plan (database_service.py 253-275): the insert
\* at the next_order the request read, into the store as it is now.
InsertAtOrderRead(r) ==
    /\ requests[r].pc = "read"
    /\ \E response \in {Done, NoData,
                        Exc("APIError", "violates foreign key constraint")} :
           LET done == InsertMeal(Db, requests[r].meal_plan_id,
                                  requests[r].name, "plate",
                                  requests[r].next_order, response)
           IN  /\ StoreBecomes(done.db)
               /\ requests' = [requests EXCEPT ![r] =
                      [pc |-> "done", meal_plan_id |-> @.meal_plan_id,
                       name |-> @.name, result |-> done.result]]
    /\ UNCHANGED <<db_call, db_result, seed_runs>>
    /\ UNCHANGED <<process, files, llm, db_service, http_request, llm_call,
                   http_response>>
    /\ UNCHANGED <<chatVars, parseVars, providerVars, facadeVars>>

NextRace ==
    \/ \E r \in Requests : SelectLargestOrder(r)
    \/ \E r \in Requests : InsertAtOrderRead(r)

SpecRace == InitRace /\ [][NextRace]_vars

(***************************************************************************)
(* seed_database  (web/seed_data.py)                                       *)
(***************************************************************************)

\* Food(name=..., ..., is_default=True) of seed_default_foods; calories as
\* written, protein, carbs and fat in tenths of a gram (3.6 is 36).
SeedFood(name, calories, protein, carbs, fat) ==
    [name |-> name, calories_per_100g |-> calories,
     protein_per_100g |-> protein, carbs_per_100g |-> carbs,
     fat_per_100g |-> fat, is_default |-> TRUE]

\* seed_default_foods() (seed_data.py 8-32).
seed_default_foods ==
    <<SeedFood("Greek Yogurt", 65, 100, 30, 0),
      SeedFood("Mixed Berries", 42, 10, 100, 0),
      SeedFood("Granola", 440, 120, 480, 240),
      SeedFood("Honey", 304, 0, 800, 0),
      SeedFood("Grilled Chicken Breast", 165, 310, 0, 36),
      SeedFood("Quinoa", 120, 40, 220, 20),
      SeedFood("Mixed Vegetables", 30, 13, 67, 0),
      SeedFood("Olive Oil", 884, 0, 0, 1000),
      SeedFood("Almonds", 579, 210, 220, 500),
      SeedFood("Apple", 52, 3, 140, 2),
      SeedFood("Salmon Fillet", 206, 220, 0, 120),
      SeedFood("Sweet Potato", 86, 20, 200, 0),
      SeedFood("Broccoli", 34, 28, 70, 4),
      SeedFood("Avocado", 160, 20, 90, 150)>>

\* meals_data of create_default_meal_plan (seed_data.py 45-84), each emoji
\* written by its name.
meals_data ==
    <<[name |-> "Breakfast", emoji |-> "cooking",
       foods |-> <<<<"Greek Yogurt", 200>>, <<"Mixed Berries", 100>>,
                   <<"Granola", 50>>, <<"Honey", 15>>>>],
      [name |-> "Lunch", emoji |-> "green salad",
       foods |-> <<<<"Grilled Chicken Breast", 150>>, <<"Quinoa", 100>>,
                   <<"Mixed Vegetables", 150>>, <<"Olive Oil", 10>>>>],
      [name |-> "Snack", emoji |-> "peanuts",
       foods |-> <<<<"Almonds", 25>>, <<"Apple", 150>>>>],
      [name |-> "Dinner", emoji |-> "plate",
       foods |-> <<<<"Salmon Fillet", 120>>, <<"Sweet Potato", 200>>,
                   <<"Broccoli", 150>>, <<"Avocado", 50>>>>]>>

\* What the store does to a create_food call the run's input makes fail.
CreateFoodFault == Exc("APIError", "permission denied for table")

\* The loop of seed_database over the default foods (seed_data.py
\* 117-122) from the i-th on: an exception of create_food is printed and
\* the loop goes on.  `failing` names the foods whose insert the store
\* refuses.
RECURSIVE CreateFoods(_, _, _)
CreateFoods(db, i, failing) ==
    IF i > Len(seed_default_foods) THEN db
    ELSE LET food == seed_default_foods[i]
             script == IF food.name \in failing
                       THEN <<CreateFoodFault>> ELSE <<>>
         IN  CreateFoods(create_food(db, food, script).db, i + 1, failing)

\* The part of a script after its first k outcomes.
From(script, k) == SubSeq(script, k + 1, Len(script))

\* {food.name: food for food in foods} (seed_data.py 42).
FoodMap(items) ==
    [name \in {items[i].name : i \in 1..Len(items)} |->
        items[Max({i \in 1..Len(items) : items[i].name = name})]]

\* A run of create_default_meal_plan under way: the store, the number of
\* execute() calls made, and the exception that ended it if one did.
Under(db, calls, outcome) == [db |-> db, calls |-> calls, result |-> outcome]

\* The inner loop of create_default_meal_plan (seed_data.py 91-95) from
\* the j-th food of a meal on.
RECURSIVE AddFoods(_, _, _, _, _, _)
AddFoods(st, meal_id, food_map, items, j, script) ==
    IF st.result.kind = "raise" \/ j > Len(items) THEN st
    ELSE IF items[j][1] \notin DOMAIN food_map
    THEN AddFoods(st, meal_id, food_map, items, j + 1, script)
    ELSE LET put == add_food_to_meal(st.db, meal_id,
                        food_map[items[j][1]].id, items[j][2],
                        From(script, st.calls))
         IN  AddFoods(Under(put.db, st.calls + 2, put.result),
                      meal_id, food_map, items, j + 1, script)

\* The outer loop of create_default_meal_plan (seed_data.py 86-95) from
\* the i-th meal on.
RECURSIVE AddMeals(_, _, _, _, _)
AddMeals(st, meal_plan_id, food_map, i, script) ==
    IF st.result.kind = "raise" \/ i > Len(meals_data) THEN st
    ELSE LET added == add_meal_to_plan(st.db, meal_plan_id,
                          meals_data[i].name, meals_data[i].emoji,
                          From(script, st.calls))
         IN  IF added.result.kind = "raise"
             THEN Under(added.db, st.calls + 2, added.result)
             ELSE AddMeals(AddFoods(Under(added.db, st.calls + 2,
                                          added.result),
                                    added.result.value.id, food_map,
                                    meals_data[i].foods, 1, script),
                           meal_plan_id, food_map, i + 1, script)

\* `except Exception as e: raise DatabaseError(...)` (seed_data.py 99-100).
PlanFailure(e) ==
    Exc("DatabaseError", "Failed to create default meal plan: " \o e.message)

\* create_default_meal_plan (seed_data.py 34-100): the script lists the
\* outcomes of its execute() calls.
create_default_meal_plan(db, script) ==
    LET made == create_meal_plan(db, "Today's Meal Plan", script)
        listed == get_all_foods(made.db, From(script, 1))
    IN  IF made.result.kind = "raise"
        THEN Op(made.db, PlanFailure(made.result))
        ELSE IF listed.result.kind = "raise"
        THEN Op(listed.db, PlanFailure(listed.result))
        ELSE LET filled == AddMeals(Under(listed.db, 2, Returned(None)),
                               made.result.value.id,
                               FoodMap(listed.result.value.items), 1, script)
             IN  IF filled.result.kind = "raise"
                 THEN Op(filled.db, PlanFailure(filled.result))
                 ELSE Op(filled.db, Returned(made.result.value.id))

\* seed_database (seed_data.py 102-143): `first` is the outcome of the
\* execute() of its own get_all_foods call.  What it raises it prints and
\* raises again.
seed_database(db, first, failing, script) ==
    LET existing_foods == get_all_foods(db, <<first>>)
        seeded == IF existing_foods.result.value.items # <<>> THEN db
                  ELSE CreateFoods(db, 1, failing)
    IN  IF existing_foods.result.kind = "raise" THEN existing_foods
        ELSE create_default_meal_plan(seeded, script)

\* No more runs than this.
MaxRuns == 3

\* The foods whose insert a run's store may refuse, and the scripts of
\* create_default_meal_plan: all well, no plan, no first meal, the first
\* food of the first meal answered without rows.
FailingChoices == {{}, {"Honey"}, {"Honey", "Avocado"}}

PlanScripts ==
    {<<>>} \cup Fails(1, {CreateFoodFault}) \cup Fails(4, {CreateFoodFault})
    \cup Fails(6, {NoData})

\* What the store does in one run: the outcome of the run's first
\* get_all_foods, then the two choices above; when the first call
\* raises, the run makes no other call.
SeedInputs ==
    {[first |-> Done, failing |-> failing, script |-> script] :
        failing \in FailingChoices, script \in PlanScripts}
    \cup {[first |-> Exc("ConnectError", "[Errno 111] Connection refused"),
           failing |-> {}, script |-> <<>>]}

\* An empty store.
InitSeed ==
    /\ ChatIdle
    /\ ParseIdle
    /\ ProviderIdle
    /\ FacadeIdle
    /\ WebIdle
    /\ DbIdle

\* python seed_data.py runs from start to end.
SeedDatabase ==
    /\ Len(seed_runs) < MaxRuns
    /\ \E input \in SeedInputs :
           LET done == seed_database(Db, input.first, input.failing,
                                     input.script)
           IN  /\ StoreBecomes(done.db)
               /\ seed_runs' = Append(seed_runs,
                      [input |-> input, result |-> done.result])
    /\ UNCHANGED <<db_call, db_result, requests>>
    /\ UNCHANGED <<process, files, llm, db_service, http_request, llm_call,
                   http_response>>
    /\ UNCHANGED <<chatVars, parseVars, providerVars, facadeVars>>

NextSeed == SeedDatabase

SpecSeed == InitSeed /\ [][NextSeed]_vars

(***************************************************************************)
(* Claims about the flattening                                             *)
(***************************************************************************)

\* What the specification says of one message, stated without the code's
\* loop: whether it is rendered, and as what.
HasKnownRole(m) == DictGet(m, "role", "user") \in KnownRoles

RoleLabel(role) ==
    CASE role = "system" -> "System"
      [] role = "user" -> "User"
      [] role = "assistant" -> "Assistant"

Rendering(m) ==
    RoleLabel(DictGet(m, "role", "user")) \o ": " \o DictGet(m, "content", "")

\* r1 "\n\n" r2 "\n\n" ... rn, built from the back.
RECURSIVE Blocks(_)
Blocks(rs) ==
    IF rs = <<>> THEN ""
    ELSE IF Len(rs) = 1 THEN rs[1]
    ELSE rs[1] \o "\n\n" \o Blocks(Tail(rs))

ExpectedPrompt(msgs) ==
    LET kept == SelectSeq(msgs, HasKnownRole)
    IN  Blocks([i \in 1..Len(kept) |-> Rendering(kept[i])]) \o "\n\nAssistant:"

ExampleMessages ==
    << [role |-> "system", content |-> "You are helpful"],
       [role |-> "user", content |-> "Hi"] >>

ExamplePrompt == "System: You are helpful\n\nUser: Hi\n\nAssistant:"

\* C1: the prompt returned is exactly the renderings of the messages whose
\* role is system, user or assistant, in input order, joined by a blank
\* line and followed by "\n\nAssistant:"; so it always ends with
\* "Assistant:", and the example conversation gives the example prompt.
C1_FlattenedPrompt ==
    prompt # NotCalled =>
        /\ prompt = ExpectedPrompt(messages)
        /\ EndsWith(prompt, "Assistant:")
        /\ (messages = ExampleMessages => prompt = ExamplePrompt)

C1_Witness ==
    /\ messages = ExampleMessages
    /\ prompt = ExamplePrompt

\* The messages the claim C2 is about: a role is given and is none of the
\* three the code renders.
HasUnknownRole(m) == "role" \in DOMAIN m /\ m.role \notin KnownRoles

RemoveAt(s, i) == SubSeq(s, 1, i - 1) \o SubSeq(s, i + 1, Len(s))

\* C2 as stated: a message with an unrecognized role is not rendered (no
\* more rendered messages than input messages), and its content never
\* occurs verbatim in the flattened prompt.
C2_ContentNeverAppears ==
    prompt # NotCalled =>
        /\ Len(prompt_parts) <= Len(messages)
        /\ \A i \in 1..Len(messages) :
               HasUnknownRole(messages[i]) =>
                   ~Occurs(DictGet(messages[i], "content", ""), prompt)

\* C2 as amended: a message with an unrecognized role contributes nothing:
\* the rendered messages are exactly those of the conversation without it,
\* and so is the prompt.  (Its content can still occur in the prompt, when
\* it is empty or also occurs in a rendered message.)
C2_UnknownRoleContributesNothing ==
    prompt # NotCalled =>
        /\ Len(prompt_parts) <= Len(messages)
        /\ Len(prompt_parts) =
               Cardinality({i \in 1..Len(messages) : HasKnownRole(messages[i])})
        /\ \A i \in 1..Len(messages) :
               HasUnknownRole(messages[i]) =>
                   /\ prompt_parts =
                          FlattenLoop(RemoveAt(messages, i), 1, <<>>)
                   /\ prompt = ExpectedPrompt(RemoveAt(messages, i))

C2_Witness ==
    /\ prompt # NotCalled
    /\ Len(messages) = 2
    /\ messages[1] = [role |-> "tool", content |-> "You are helpful"]
    /\ prompt = "User: Hi\n\nAssistant:"

(***************************************************************************)
(* Claims about the parser                                                 *)
(***************************************************************************)

\* The positions at which a literal occurs in a text.
Occurrences(s, lit) == {i \in 1..Len(s) : StartsAt(s, i, lit)}

\* The text holds an opening tag and, after it, a closing tag.
HasPair(s, open, close) ==
    \E i \in Occurrences(s, open) :
        \E j \in Occurrences(s, close) : j >= i + Len(open)

\* The text between the first opening tag and the first closing tag that
\* follows it.
FirstBody(s, open, close) ==
    LET i == Min(Occurrences(s, open))
        j == Min({k \in Occurrences(s, close) : k >= i + Len(open)})
    IN  Sub(s, i + Len(open), j - 1)

\* trim(X): X from its first to its last character that is not whitespace.
TrimChars == {" ", "\t", "\n", "\r", "\f"}
Trim(x) ==
    LET solid == {k \in 1..Len(x) : Sub(x, k, k) \notin TrimChars}
    IN  IF solid = {} THEN "" ELSE Sub(x, Min(solid), Max(solid))

Once(s, lit) == Cardinality(Occurrences(s, lit)) = 1

\* One <chat>X</chat> section and one <meal-plan>Y</meal-plan> section:
\* each tag occurs once, the opening tag before the closing tag.
WellFormed(s) ==
    /\ Once(s, "<chat>") /\ Once(s, "</chat>")
    /\ Once(s, "<meal-plan>") /\ Once(s, "</meal-plan>")
    /\ HasPair(s, "<chat>", "</chat>")
    /\ HasPair(s, "<meal-plan>", "</meal-plan>")

\* C3: for a completion with a well-formed <chat>X</chat> section and a
\* well-formed <meal-plan>Y</meal-plan> section, whatever whitespace pads X
\* and Y, the parser returns chat = trim(X), meal_plan = trim(Y),
\* parsing_error = false and the raw field equal to the input.
C3_WellFormedParsed ==
    (parsed # NotParsed /\ WellFormed(response_text)) =>
        parsed = [chat |-> Trim(FirstBody(response_text, "<chat>", "</chat>")),
                  meal_plan |-> Trim(FirstBody(response_text,
                                               "<meal-plan>", "</meal-plan>")),
                  raw_response |-> response_text,
                  parsing_error |-> FALSE]

C3_Witness ==
    /\ response_text = "<chat> a\n</chat><meal-plan></meal-plan>"
    /\ parsed # NotParsed
    /\ parsed.chat = "a"
    /\ parsed.meal_plan = ""
    /\ parsed.parsing_error = FALSE

\* C4: for a completion that lacks the <chat>...</chat> pair or the
\* <meal-plan>...</meal-plan> pair, the parser returns the sentinel payload:
\* parsing_error = true, chat = "PARSING ERROR", meal_plan = "", and the
\* raw field equal to the input.
C4_MissingPairSentinel ==
    parsed # NotParsed =>
        /\ parsed.raw_response = response_text
        /\ (~HasPair(response_text, "<chat>", "</chat>")
              \/ ~HasPair(response_text, "<meal-plan>", "</meal-plan>")) =>
               parsed = [chat |-> "PARSING ERROR", meal_plan |-> "",
                         raw_response |-> response_text,
                         parsing_error |-> TRUE]

C4_Witness ==
    /\ parsed # NotParsed
    /\ HasPair(response_text, "<chat>", "</chat>")
    /\ Occurrences(response_text, "<meal-plan>") # {}
    /\ ~HasPair(response_text, "<meal-plan>", "</meal-plan>")
    /\ parsed.parsing_error = TRUE
    /\ parsed.chat = "PARSING ERROR"

\* A tag of the text occurs more than once.
Repeated(s) ==
    \E lit \in {"<chat>", "</chat>", "<meal-plan>", "</meal-plan>"} :
        Cardinality(Occurrences(s, lit)) > 1

C6_DefaultsApplied ==
    request.sent =>
        /\ request.model = (IF call.args.model = None THEN default_model
                            ELSE call.args.model[1])
        /\ request.max_tokens = (IF call.args.max_tokens = None THEN Some(1000)
                                 ELSE call.args.max_tokens)

StreamOver ==
    call.op = "generate_stream" /\ gen \in {"exhausted", "failed", "closed"}

\* C8 as stated: every generate makes exactly one vendor call, whether it
\* succeeds or fails, and every generate_stream call opens exactly one
\* streaming connection.
C8_ExactlyOneVendorCall ==
    /\ call.op = "generate" => vendor_calls = 1
    /\ StreamOver => vendor_calls = 1

\* C8 as amended: every generate makes exactly one vendor call, whether it
\* succeeds or fails; a generate_stream call makes no vendor call before
\* its stream is first pulled, opens its one streaming connection at the
\* first pull, and never opens another.
C8_OneVendorCallOncePulled ==
    /\ call.op = "generate" => vendor_calls = 1 /\ request.sent
    /\ call.op = "generate_stream" =>
           /\ vendor_calls = (IF pulls = 0 THEN 0 ELSE 1)
           /\ request.sent <=> pulls > 0

C8_Witness ==
    /\ call.op = "generate_stream"
    /\ gen = "failed"
    /\ transport # NoTransport
    /\ pulls = 2
    /\ vendor_calls = 1

\* The texts among the chunks the transport emitted, in emission order.
HasText(chunk) == chunk # None
TextsOf(chunks) ==
    LET texts == SelectSeq(chunks, HasText)
    IN  [i \in 1..Len(texts) |-> texts[i][1]]

\* C9: at every point of the consumption the fragments observed are the
\* fragments the transport has delivered, in its emission order, one pull
\* per fragment; when the transport fails, the error is raised by the pull
\* that follows the last fragment, and every fragment emitted before the
\* failure has been observed.
C9_FragmentsInOrder ==
    (call.op = "generate_stream" /\ transport # NoTransport) =>
        /\ observed = TextsOf(SubSeq(transport.chunks, 1, cursor))
        /\ gen = "suspended" =>
               /\ pulls = Len(observed)
               /\ cursor >= 1
               /\ transport.chunks[cursor] = Some(observed[Len(observed)])
        /\ gen \in {"exhausted", "failed"} =>
               /\ pulls = Len(observed) + 1
               /\ observed = TextsOf(transport.chunks)
        /\ gen = "failed" =>
               /\ result.kind = "raise"
               /\ Occurs(transport.ending.message, result.message)
        /\ gen # "failed" => result = NoResult

C9_Witness ==
    /\ call.op = "generate_stream"
    /\ transport # NoTransport
    /\ transport.chunks = <<Some("Hel"), Some("lo")>>
    /\ observed = <<"Hel", "lo">>
    /\ pulls = 3
    /\ gen = "failed"

\* C10: a consumer that stops pulling causes no error in the producer, and
\* the streaming connection the call opened is released when the provider's
\* scope is left, in all three endings: end of stream, error in the stream,
\* early termination by the consumer.
C10_ConnectionReleased ==
    StreamOver =>
        /\ gen = "closed" => result = NoResult
        /\ transport # NoTransport => connection = "released"


\* The lists the specification calls hardcoded.
HardcodedModels ==
    [anthropic |-> <<"claude-3-5-haiku-20241022", "claude-3-haiku-20240307">>,
     openai |-> <<"gpt-4", "gpt-4-turbo-preview", "gpt-3.5-turbo",
                  "gpt-3.5-turbo-16k">>]

\* C14: get_available_models makes no vendor call and returns the
\* provider's hardcoded list, in its order, on every call: after earlier
\* generate, generate_stream and get_available_models calls, and whatever
\* the caller did to a list returned before.
C14_ModelsStatic ==
    call.op = "get_available_models" =>
        /\ result = [kind |-> "return", value |-> HardcodedModels[provider]]
        /\ vendor_calls = 0
        /\ request.sent = FALSE

C14_Witness ==
    /\ call.op = "get_available_models"
    /\ provider = "openai"
    /\ call.earlier # None
    /\ call.earlier[1] = <<"gpt-4-turbo-preview", "gpt-3.5-turbo",
                           "gpt-3.5-turbo-16k">>
    /\ result.value = HardcodedModels.openai

(***************************************************************************)
(* Claims about the wrapper and its configuration                          *)
(***************************************************************************)

\* The calls a call of the wrapper made on the held provider.
IsProviderCall(entry) == entry.on = "provider"
ProviderCalls(r) == SelectSeq(r.trace, IsProviderCall)

\* What chat must hand to generate, stated with the flattening of C1.
ExpectedChatArgs(args) ==
    [prompt |-> ExpectedPrompt(args.messages), model |-> args.model,
     max_tokens |-> args.max_tokens, temperature |-> args.temperature,
     kwargs |-> args.kwargs]

\* A call of the wrapper is over.
CallOver(r) == r.pc \in {"done", "exhausted", "failed", "closed"}

\* What C11 says of generate, chat and get_available_models, and of the
\* values and errors every operation hands back.
PassesThrough(r) ==
    /\ (r.op = "generate" /\ r.pc \in {"waiting", "done"}) =>
           r.trace = <<OnProvider("generate", r.args)>>
    /\ r.op = "chat" =>
           /\ r.trace[1] = OnFacade("generate", ExpectedChatArgs(r.args))
           /\ r.pc = "entered" => Len(r.trace) = 1
           /\ r.pc \in {"waiting", "done"} =>
                  r.trace = <<OnFacade("generate", ExpectedChatArgs(r.args)),
                              OnProvider("generate", ExpectedChatArgs(r.args))>>
    /\ r.op = "get_available_models" =>
           /\ r.trace = <<OnProvider("get_available_models", <<>>)>>
           /\ r.result.kind = "return"
    /\ r.op = "generate_stream" =>
           /\ \A i \in 1..Len(r.trace) :
                  r.trace[i] = OnProvider("generate_stream", r.args)
           /\ r.script # NoTransport =>
                  r.observed = TextsOf(SubSeq(r.script.chunks, 1, r.cursor))
           /\ r.pc = "failed" <=> r.result.kind = "raise"
    /\ r.result = r.provider_result

\* C11 as stated: every operation of the wrapper invokes the same operation
\* of the held provider exactly once with the arguments it was given (chat:
\* generate, once, with the flattened prompt) and hands back what the
\* provider returned, yielded or raised, unchanged.
C11_InvokesProviderExactlyOnce ==
    \A c \in DOMAIN callers :
        LET r == callers[c]
        IN  r.pc # "idle" =>
                /\ PassesThrough(r)
                /\ CallOver(r) => Len(ProviderCalls(r)) = 1

\* C11 as amended: generate, chat and get_available_models invoke the
\* provider exactly once; generate_stream invokes the provider's
\* generate_stream not at all until its stream is first pulled, once at the
\* first pull and never again; in all of them the arguments arrive as given
\* and what the provider returns, yields or raises reaches the caller
\* unchanged.
C11_PassThroughOncePulled ==
    \A c \in DOMAIN callers :
        LET r == callers[c]
        IN  r.pc # "idle" =>
                /\ PassesThrough(r)
                /\ (CallOver(r) /\ r.op # "generate_stream") =>
                       Len(ProviderCalls(r)) = 1
                /\ r.op = "generate_stream" =>
                       Len(ProviderCalls(r)) = (IF r.pulls = 0 THEN 0 ELSE 1)

C11_Witness ==
    /\ callers # <<>>
    /\ callers["caller1"].pc = "failed"
    /\ callers["caller1"].pulls = 3
    /\ callers["caller1"].observed = <<"Hel", "lo">>
    /\ callers["caller1"].result.message =
           "OpenAI streaming API error: rate limit exceeded"
    /\ callers["caller2"].pc = "done"
    /\ callers["caller2"].op = "chat"
    /\ callers["caller2"].args.kwargs # {}
    /\ Len(callers["caller2"].trace) = 2

\* The credential the wrapper was configured with: that of the Config
\* passed to the constructor, or the environment's.
ConfiguredCredential ==
    IF wrapper.config_arg # None THEN wrapper.config_arg[1].anthropic_api_key
    ELSE environ.ANTHROPIC_API_KEY[1]

\* C12: from construction on, and after any calls of generate,
\* generate_stream, chat and get_available_models, the wrapper holds the
\* provider passed to the constructor if one was, otherwise an Anthropic
\* provider built from the configured credential.
C12_HoldsOneProvider ==
    (wrapper # NoObject /\ wrapper.object.state = "built") =>
        /\ wrapper.provider_arg # None =>
               wrapper.object.provider = wrapper.provider_arg[1]
        /\ wrapper.provider_arg = None =>
               /\ wrapper.object.provider.class = "anthropic"
               /\ wrapper.object.provider.api_key = ConfiguredCredential

C12_Witness ==
    /\ wrapper # NoObject
    /\ wrapper.object.state = "built"
    /\ wrapper.provider_arg # None
    /\ wrapper.object.provider.class = "openai"
    /\ callers["caller1"].pc = "done"
    /\ callers["caller1"].op = "generate"
    /\ callers["caller2"].pc = "exhausted"

\* C13: the construction of a Config raises ValueError exactly when the key
\* argument is absent or empty and ANTHROPIC_API_KEY is absent or empty;
\* otherwise the Config exists, its key is not empty and validate() is
\* true.
C13_ConfigFailsFast ==
    config # NoObject =>
        LET failed == config.object.state = "raised"
        IN  /\ failed <=>
                   /\ config.arg \in {None, Some("")}
                   /\ environ.ANTHROPIC_API_KEY \in {None, Some("")}
            /\ failed => config.object.type = "ValueError"
            /\ ~failed =>
                   /\ config.object.anthropic_api_key # ""
                   /\ validate(config.object)

C13_Witness ==
    /\ config # NoObject
    /\ config.arg = Some("")
    /\ environ.ANTHROPIC_API_KEY = Some("sk-ant-env")
    /\ config.object.state = "built"
    /\ config.object.anthropic_api_key = "sk-ant-env"

\* The wrapper as its constructor left it.
AsConstructed ==
    NewWrapper(wrapper.provider_arg, wrapper.config_arg, environ)

\* C15: no call writes the wrapper or its provider, and under every
\* interleaving of the callers each call's vendor request is made from its
\* own arguments and the provider as constructed, and its result from its
\* own vendor answer.
C15_CallsIndependent ==
    (wrapper # NoObject /\ wrapper.object.state = "built") =>
        /\ wrapper.object = AsConstructed
        /\ \A c \in DOMAIN callers :
               LET r == callers[c]
                   p == AsConstructed.provider
               IN  r.pc # "idle" =>
                       /\ r.request # NoRequest =>
                              r.request =
                                  VendorRequestWithExtras(p.class,
                                      (IF r.op = "chat"
                                       THEN ExpectedChatArgs(r.args) ELSE r.args),
                                      p.default_model,
                                      r.op = "generate_stream")
                       /\ (r.pc = "done" /\ r.op \in {"generate", "chat"}) =>
                              r.result = GenerateResult(p.class, r.outcome)
                       /\ r.script # NoTransport =>
                              r.observed =
                                  TextsOf(SubSeq(r.script.chunks, 1, r.cursor))

C15_Witness ==
    /\ callers # <<>>
    /\ callers["caller1"].pc = "waiting"
    /\ callers["caller1"].args.model = None
    /\ callers["caller2"].pc = "suspended"
    /\ callers["caller2"].args.model # None
    /\ callers["caller2"].request # NoRequest


(***************************************************************************)
(* Claims about the web application                                        *)
(***************************************************************************)

\* The request last handled went to the nutritionist chat endpoint with a
\* JSON object as its body.
ChatRequest ==
    /\ http_request.route = "nutritionist_chat"
    /\ http_request.body.json = "object"

\* Its message is missing (no key, or null) or empty.
MessageMissing ==
    \/ "message" \notin DOMAIN http_request.body.data
    \/ http_request.body.data.message \in {None, Some("")}

\* C16: the nutritionist chat endpoint answers a JSON body {message,
\* model?, temperature?, max_tokens?} with {response} on success and
\* {error} on failure: status 400 when message is missing or empty, status
\* 500 when the wrapper is not initialized or the generate call fails.
C16_ChatResponseOrError ==
    ChatRequest =>
        /\ http_response.kind = "json"
        /\ llm = None => http_response.status = 500
        /\ (llm # None /\ MessageMissing) => http_response.status = 400
        /\ (llm_call # None /\ http_request.outcome.kind = "error") =>
               http_response.status = 500
        /\ http_response.status # 200 =>
               DOMAIN http_response.body = {"error"}
        /\ http_response.status = 200 =>
               DOMAIN http_response.body = {"response"}

\* The text a request field stands for in the prompt: the empty string
\* when the request omits it, the text None for a JSON null.
FieldText(data, key) ==
    IF key \notin DOMAIN data THEN ""
    ELSE IF data[key] = None THEN "None"
    ELSE data[key][1]

\* C17 as stated: for every accepted request the prompt passed to generate
\* is the prompt file's text, verbatim, then a blank line, the meal plan
\* context (empty when omitted), "\n\nUser request: " and the message.
C17_PromptFromVerbatimResource ==
    (ChatRequest /\ llm_call # None) =>
        llm_call[1].prompt =
            files.system_prompt[1] \o "\n\n"
                \o FieldText(http_request.body.data, "meal_plan_context")
                \o "\n\nUser request: "
                \o FieldText(http_request.body.data, "message")

\* C17 as amended: the same with the prompt file's text stripped of the
\* white space at its two ends.
C17_PromptFromStrippedResource ==
    (ChatRequest /\ llm_call # None) =>
        llm_call[1].prompt =
            Trim(files.system_prompt[1]) \o "\n\n"
                \o FieldText(http_request.body.data, "meal_plan_context")
                \o "\n\nUser request: "
                \o FieldText(http_request.body.data, "message")

C17_Witness ==
    /\ http_request.route = "nutritionist_chat"
    /\ files.system_prompt = Some("You are a nutritionist.\n")
    /\ llm_call # None
    /\ llm_call[1].prompt =
           "You are a nutritionist.\n\n\n\nUser request: Swap the rice"
    /\ http_response.status = 200

\* C18: whatever a route's handler raises is answered by the handler with
\* a JSON {error} payload: status 500, or a 4xx status for the validation
\* and not-found cases; no exception leaves a handler.
C18_EveryHandlerCatchesAll ==
    (http_request # NoRequestYet /\ http_response.status # 200) =>
        /\ http_response.kind = "json"
        /\ DOMAIN http_response.body = {"error"}
        /\ http_response.status \in {400, 404, 500}

LLMRoutes == {"get_models", "generate_macros", "nutritionist_chat"}
DatabaseRoutes == {"update_food"}

\* C19: the application starts whatever dependency is missing; without the
\* LLM credential llm is unset and the LLM endpoints answer 500 {error};
\* without the database configuration or client db_service is unset and
\* the database endpoints answer 500 "Database service not initialized";
\* the endpoints of the other dependency are not answered that way.
C19_StartsWithoutDependencies ==
    /\ process.state # "crashed"
    /\ process.state = "serving" =>
           /\ llm = None <=> environ.ANTHROPIC_API_KEY \in {None, Some("")}
           /\ db_service = None <=>
                  \/ environ.SUPABASE_URL \in {None, Some("")}
                  \/ environ.SUPABASE_ANON_KEY \in {None, Some("")}
           /\ (llm = None /\ http_request.route \in LLMRoutes) =>
                  /\ http_response.status = 500
                  /\ DOMAIN http_response.body = {"error"}
           /\ (db_service = None /\ http_request.route \in DatabaseRoutes) =>
                  http_response =
                      [status |-> 500, kind |-> "json",
                       body |-> [error |-> "Database service not initialized"]]
           /\ (llm = None /\ db_service # None
                   /\ http_request.route \in DatabaseRoutes) =>
                  http_response.body # [error |-> "Database service not initialized"]

\* The four values a PUT /api/foods/<food_id> body must carry.
CarriesAllValues(data) ==
    \A f \in {"calories_per_100g", "protein_per_100g", "carbs_per_100g",
              "fat_per_100g"} :
        f \in DOMAIN data /\ data[f] # None

\* C20: PUT /api/foods/<food_id> with the four values and an existing food
\* answers 200 and the stored food has the new values; with a value
\* missing it answers 400 and the table is unchanged; for a food that does
\* not exist it answers 404.
C20_UpdateFoodStoresValues ==
    (http_request.route = "update_food" /\ http_request.body.json = "object") =>
        LET data == http_request.body.data
            id == http_request.food_id
        IN  /\ ~CarriesAllValues(data) =>
                   /\ http_response.status = 400
                   /\ foods = InitialFoods
            /\ (CarriesAllValues(data) /\ id \notin DOMAIN InitialFoods) =>
                   http_response.status = 404
            /\ (CarriesAllValues(data) /\ id \in DOMAIN InitialFoods) =>
                   /\ http_response.status = 200
                   /\ foods[id].calories_per_100g = data.calories_per_100g[1]
                   /\ foods[id].protein_per_100g = data.protein_per_100g[1]
                   /\ foods[id].carbs_per_100g = data.carbs_per_100g[1]
                   /\ foods[id].fat_per_100g = data.fat_per_100g[1]

\* A generate-macros request the handler passes on to the model and that
\* the model answers with some text.
MacrosAnswered ==
    /\ http_request.route = "generate_macros"
    /\ llm # None
    /\ http_request.body.json = "object"
    /\ Truthy(DictGet(http_request.body.data, "food_name", Some("")))
    /\ Strip(http_request.body.data.food_name[1]) # ""
    /\ http_request.outcome.kind = "response"

\* The model's text is a JSON object with the four fields, each a
\* non-negative number.
MacrosWellFormed(loads) ==
    /\ loads.kind = "object"
    /\ RequiredFields \subseteq loads.keys
    /\ loads.bad \cap RequiredFields = {}

\* C22: a generate-macros request with a non-empty food_name whose generate
\* call succeeds is answered 200 whatever text the model returned: the
\* model's object when it holds the four fields as non-negative numbers,
\* the fallback values 100, 5, 10 and 3 for every other text.
C22_MacrosAlways200 ==
    MacrosAnswered =>
        /\ http_response.status = 200
        /\ IF MacrosWellFormed(http_request.outcome.loads)
           THEN http_response.body =
                    [object |-> Strip(http_request.outcome.items[1][1])]
           ELSE http_response.body = FallbackMacros

(***************************************************************************)
(* Claims about the handlers that write the store                          *)
(***************************************************************************)

\* A POST /api/meal-foods request whose body is an object without a
\* food_id.
DirectFoodRequest ==
    /\ http_request.route = "add_food_to_meal"
    /\ http_request.body.json = "object"
    /\ ~Truthy(DictGet(http_request.body.data, "food_id", None))

\* C21: POST /api/meal-foods without a food_id: when meal_id,
\* quantity_grams and food_name are present, a meal-food row for that meal
\* is created and the handler answers 201 with it; when food_name is
\* missing it answers 400 and nothing is stored.
C21_DirectFoodStored ==
    DirectFoodRequest =>
        LET data == http_request.body.data
            meal_id == DictGet(data, "meal_id", None)
            quantity_grams == DictGet(data, "quantity_grams", None)
            food_name == DictGet(data, "food_name", None)
            before == http_request.store
        IN  /\ (Truthy(meal_id) /\ quantity_grams # None /\ Truthy(food_name)) =>
                   /\ http_response.status = 201
                   /\ \E id \in DOMAIN meal_foods \ DOMAIN before.meal_foods :
                          /\ meal_foods[id].meal_id = meal_id[1]
                          /\ http_response.body.meal_food.id = id
            /\ ~Truthy(food_name) =>
                   /\ http_response.status = 400
                   /\ Db = before

(***************************************************************************)
(* Claims about DatabaseService                                            *)
(***************************************************************************)

\* No execute() call of the operation last called raised.
StoreWorked == \A i \in 1..Len(db_call.script) : db_call.script[i].kind # "raise"

\* The rows of a meal_foods table that belong to a meal.
RowsOfMeal(rows, meal_id) == Matching(rows, "meal_id", meal_id)

\* C23: after delete_meal(m) returns, neither the meal m nor any
\* meal-food row of m exists and no row of any other meal has changed;
\* delete_meal on an id with no meal raises MealNotFoundError, which the
\* handler answers with 404, and leaves every meal row unchanged.
C23_DeleteMealRemovesAll ==
    db_call.op = "delete_meal" =>
        LET m == db_call.args.meal_id
            before == db_call.store
            others == DOMAIN before.meal_foods \ RowsOfMeal(before.meal_foods, m)
        IN  /\ db_result.kind = "return" =>
                   /\ m \in DOMAIN before.meals
                   /\ m \notin DOMAIN meals
                   /\ RowsOfMeal(meal_foods, m) = {}
                   /\ meals = Without(before.meals, {m})
                   /\ DOMAIN meal_foods = others
                   /\ \A id \in others : meal_foods[id] = before.meal_foods[id]
                   /\ foods = before.foods
                   /\ meal_plans = before.meal_plans
            /\ m \notin DOMAIN before.meals =>
                   /\ meals = before.meals
                   /\ db_result.kind = "raise"
                   /\ StoreWorked =>
                          /\ db_result.type = "MealNotFoundError"
                          /\ DeleteMealExcept(db_result).status = 404

\* A meal that has foods is deleted while another meal has foods too.
C23_Witness ==
    /\ db_call.op = "delete_meal"
    /\ db_result.kind = "return"
    /\ RowsOfMeal(db_call.store.meal_foods, db_call.args.meal_id) # {}
    /\ meal_foods # NoRows
    /\ Cardinality(DOMAIN db_call.store.meals) = 2

\* The meals of a plan in a meals table.
MealsOfPlan(rows, meal_plan_id) == Matching(rows, "meal_plan_id", meal_plan_id)

\* No two meals of one plan have the same order_index.
DistinctOrderIndex ==
    \A a, b \in DOMAIN meals :
        (a # b /\ meals[a].meal_plan_id = meals[b].meal_plan_id) =>
            meals[a].order_index # meals[b].order_index

\* C24: with the operations called one after the other, the meals of each
\* plan have pairwise distinct order_index values; add_meal_to_plan gives
\* the new meal order_index 0 when the plan has no meals and otherwise one
\* more than the largest of the plan, and get_meal_plan_by_id lists the new
\* meal last.
C24_OrderIndexDistinct ==
    /\ DistinctOrderIndex
    /\ (db_call.op = "add_meal_to_plan" /\ db_result.kind = "return") =>
           LET new == db_result.value
               plan == db_call.args.meal_plan_id
               before == db_call.store.meals
               siblings == MealsOfPlan(before, plan)
               listed == get_meal_plan_by_id(Db, plan, <<>>).result
           IN  /\ new.id \in DOMAIN meals \ DOMAIN before
               /\ meals[new.id].order_index = new.order_index
               /\ new.order_index =
                      IF siblings = {} THEN 0
                      ELSE Max({before[id].order_index : id \in siblings}) + 1
               /\ listed.kind = "return" =>
                      listed.value.meals[Len(listed.value.meals)].id = new.id

\* A meal is added to a plan from which the first meal was deleted: it
\* gets the position after the largest one left, not the number of meals.
C24_Witness ==
    /\ db_call.op = "add_meal_to_plan"
    /\ db_result.kind = "return"
    /\ db_result.value.order_index = 2
    /\ Cardinality(MealsOfPlan(meals, db_call.args.meal_plan_id)) = 2
    /\ db_call.args.meal_plan_id \in DOMAIN meal_plans

\* C25: for any interleaving of concurrent add_meal_to_plan requests on
\* one plan, no two meals of that plan end up with the same order_index.
C25_DistinctUnderInterleaving ==
    (requests # <<>> /\ \A r \in Requests : requests[r].pc # "read") =>
        \A a, b \in DOMAIN meals :
            (a # b /\ meals[a].meal_plan_id = meals[b].meal_plan_id) =>
                meals[a].order_index # meals[b].order_index

\* The operation string the operation last called passes to
\* _handle_supabase_error.
OperationPassed ==
    LET op == db_call.op
        args == db_call.args
    IN  IF op = "get_all_foods" THEN "get_all_foods"
        ELSE IF op = "get_food_by_id"
        THEN "get_food_by_id(" \o args.food_id \o ")"
        ELSE IF op = "create_food" THEN "create_food(" \o args.food.name \o ")"
        ELSE IF op = "get_meal_plan_by_id"
        THEN "get_meal_plan_by_id(" \o args.meal_plan_id \o ")"
        ELSE IF op = "create_meal_plan"
        THEN "create_meal_plan(" \o args.name \o ")"
        ELSE IF op = "add_meal_to_plan"
        THEN "add_meal_to_plan(" \o args.meal_plan_id \o ", " \o args.name \o ")"
        ELSE IF op = "delete_meal" THEN "delete_meal(" \o args.meal_id \o ")"
        ELSE IF op = "add_food_to_meal"
        THEN "add_food_to_meal(" \o args.meal_id \o ", " \o args.food_id \o ")"
        ELSE IF op = "remove_food_from_meal"
        THEN "remove_food_from_meal(" \o args.meal_food_id \o ")"
        ELSE "update_food_quantity(" \o args.meal_food_id \o ")"

\* The operations that return None when they succeed.
ReturnNothing == {"delete_meal", "remove_food_from_meal"}

\* C26: every DatabaseService operation either returns its result or
\* raises DatabaseError or one of its subclasses: _handle_supabase_error
\* raises for every operation name passed to it whatever the store raised,
\* so no operation returns None in place of a failed result and no other
\* exception type leaves the service.
C26_OnlyDatabaseErrors ==
    db_call.op # "none" =>
        /\ db_result.kind \in {"return", "raise"}
        /\ db_result.kind = "raise" => db_result.type \in DatabaseErrors
        /\ (db_result.kind = "return" /\ db_result.value = None) =>
               (db_call.op \in ReturnNothing /\ StoreWorked)
        /\ \A e \in StoreFaults :
               LET handled == _handle_supabase_error(e, OperationPassed)
               IN  handled.kind = "raise" /\ handled.type \in DatabaseErrors

\* The store raises "does not exist" in an operation whose name holds
\* neither "food" nor "meal_plan": the last not-found branch raises.
C26_Witness ==
    /\ db_call.op = "delete_meal"
    /\ ~StoreWorked
    /\ db_result =
           Exc("MealNotFoundError",
               "Meal not found during delete_meal(" \o db_call.args.meal_id \o ").")

\* The error the operation last called raises itself because a store call
\* that went well returned no row, or None when it raises no such error.
OwnError ==
    LET op == db_call.op
        args == db_call.args
        before == db_call.store
        first == Outcome(db_call.script, 1)
        second == Outcome(db_call.script, 2)
    IN  IF op = "get_food_by_id" /\ first.kind # "raise"
           /\ args.food_id \notin DOMAIN before.foods
        THEN Some(Exc("FoodNotFoundError",
                      "Food with ID " \o args.food_id \o " not found."))
        ELSE IF op = "create_food" /\ first = NoData
        THEN Some(Exc("DatabaseError",
                      "Failed to create food item. No data returned."))
        ELSE IF op = "get_meal_plan_by_id" /\ first.kind # "raise"
                /\ args.meal_plan_id \notin DOMAIN before.meal_plans
        THEN Some(Exc("MealPlanNotFoundError",
                      "Meal plan with ID " \o args.meal_plan_id \o " not found."))
        ELSE IF op = "create_meal_plan" /\ first = NoData
        THEN Some(Exc("DatabaseError",
                      "Failed to create meal plan. No data returned."))
        ELSE IF op = "add_meal_to_plan" /\ first.kind # "raise" /\ second = NoData
        THEN Some(Exc("DatabaseError",
                      "Failed to create meal. No data returned."))
        ELSE IF op = "delete_meal" /\ first.kind # "raise"
                /\ second.kind # "raise" /\ args.meal_id \notin DOMAIN before.meals
        THEN Some(Exc("MealNotFoundError",
                      "Meal with ID " \o args.meal_id
                      \o " not found or already deleted."))
        ELSE IF op = "add_food_to_meal" /\ first.kind # "raise"
                /\ args.food_id \in DOMAIN before.foods /\ second = NoData
        THEN Some(Exc("DatabaseError",
                      "Failed to add food to meal. No data returned."))
        ELSE IF op = "remove_food_from_meal" /\ first.kind # "raise"
                /\ args.meal_food_id \notin DOMAIN before.meal_foods
        THEN Some(Exc("DatabaseError",
                      "Meal food with ID " \o args.meal_food_id
                      \o " not found or already deleted."))
        ELSE IF op = "update_food_quantity" /\ first.kind # "raise"
                /\ args.meal_food_id \notin DOMAIN before.meal_foods
        THEN Some(Exc("DatabaseError",
                      "Meal food with ID " \o args.meal_food_id \o " not found."))
        ELSE IF op = "update_food_quantity" /\ first.kind # "raise"
                /\ args.meal_food_id \in DOMAIN before.meal_foods
                /\ second = NoData
        THEN Some(Exc("DatabaseError",
                      "Failed to update food quantity. No data returned."))
        ELSE None

\* C27: an error an operation raises itself for an empty result reaches
\* the caller with the exception class and the message it was raised
\* with, in every operation that raises one.
C27_OwnErrorsReachCaller ==
    (db_call.op # "none" /\ OwnError # None) => db_result = OwnError[1]

(***************************************************************************)
(* Claims about seed_database                                              *)
(***************************************************************************)

DefaultNames == {seed_default_foods[i].name : i \in 1..Len(seed_default_foods)}

\* How many rows of the foods table have this name.
TimesStored(name) == Cardinality({id \in DOMAIN foods : foods[id].name = name})

\* The runs that returned a plan id.
Completed == {i \in 1..Len(seed_runs) : seed_runs[i].result.kind = "return"}

\* The meals of a plan are Breakfast, Lunch, Snack and Dinner at
\* order_index 0, 1, 2 and 3.
IsDefaultPlan(meal_plan_id) ==
    /\ meal_plan_id \in DOMAIN meal_plans
    /\ {<<meals[id].name, meals[id].order_index>> :
            id \in Matching(meals, "meal_plan_id", meal_plan_id)}
       = {<<"Breakfast", 0>>, <<"Lunch", 1>>, <<"Snack", 2>>, <<"Dinner", 3>>}
    /\ Cardinality(Matching(meals, "meal_plan_id", meal_plan_id)) = 4

\* C28: after any number of seed_database runs, runs with failing
\* create_food calls included, the foods table holds each of the 14
\* default foods at most once, and exactly once as soon as a run has
\* completed in which no create_food call was failing; every run that
\* completes creates one new default meal plan whose meals are Breakfast,
\* Lunch, Snack and Dinner with order_index 0, 1, 2 and 3.
C28_SeedingConverges ==
    /\ \A name \in DefaultNames : TimesStored(name) <= 1
    /\ (\E i \in Completed : seed_runs[i].input.failing = {}) =>
           \A name \in DefaultNames : TimesStored(name) = 1
    /\ \A i \in Completed : IsDefaultPlan(seed_runs[i].result.value)
    /\ \A i, j \in Completed :
           i # j => seed_runs[i].result.value # seed_runs[j].result.value

=============================================================================
